---------------------------- MODULE Spec2Model ----------------------------
(***************************************************************************)
(* PR velocity dashboard: the ingestion run (fetchPRData), the CSV codec   *)
(* (CSV generation of fetchPRData, parseCSV) and the dashboard's           *)
(* aggregation helpers (processData, processImpactData,                    *)
(* calculateMovingAverage, removeOutliers, getStats, getImpactStats).      *)
(* The Dashboard component itself (initial load, loadData, handleRefresh)  *)
(* comes last.                                                             *)
(*                                                                         *)
(* Strings are TLA+ strings; a character is a string of length 1.          *)
(* A Date is its time value in HOURS since 1970-01-01T00:00Z (the code's   *)
(* milliseconds, divided by 3 600 000: every instant of the model is a     *)
(* whole hour), or NaN for an Invalid Date.                                *)
(***************************************************************************)
EXTENDS Integers, Sequences, FiniteSets, TLC

VARIABLES
    \* ---- the ingestion run (fetchPRData)
    pat,            \* process.env.AZURE_DEVOPS_PAT is set
    withLoc,        \* options.withLoc
    hasOnProgress,  \* options.onProgress is supplied
    pc,             \* the await the run is suspended at, or start / done / failed
    repos,          \* reposData.value
    repoIdx,        \* position of the for..of over repos
    skip,           \* offset of the page being fetched
    prs,            \* the page being processed: its length (items skip+1..skip+prs)
    prIdx,          \* position of the for..of over prs (the item being estimated)
    commits,        \* getPRChangeStats: commitsData.value
    commitIdx,      \* getPRChangeStats: position of the for..of over commits
    totalAdded,     \* getPRChangeStats: totalAdded
    totalDeleted,   \* getPRChangeStats: totalDeleted
    allRecords,     \* the record accumulator
    requests,       \* every fetch() issued so far, in order
    outcomes,       \* how each settled: outcomes[n] is the outcome of requests[n]
    inFlight,       \* fetches issued and not yet settled
    failures,       \* upstream failures so far (bounded by MaxFailures)
    progress,       \* arguments of the onProgress calls so far, in order
    csvFile,        \* what was written to outputPath: <<>> or <<text>>
    summaryFile,    \* what was written to the summary path: <<>> or <<summary>>
    thrown,         \* the error fetchPRData rejected with, or ""
    \* ---- the record codec (CSV generation, parseCSV)
    codecPc,        \* idle / input / encoded / decoded
    codecRecords,   \* the record list handed to the CSV generation
    codecText,      \* the CSV text
    codecParsed,    \* parseCSV(codecText)
    \* ---- the day aggregation (processData, processImpactData)
    aggPc,          \* idle / input / velocity / impact
    tz,             \* the time zone of the browser the dashboard runs in
    aggRecords,     \* the record list handed to the aggregation
    aggData,        \* processData(aggRecords)
    aggImpact,      \* processImpactData(aggRecords)
    \* ---- smoothing (calculateMovingAverage)
    maPc,           \* idle / input / done
    maData,         \* the series handed to calculateMovingAverage
    maWindow,       \* windowSize
    maResult,       \* calculateMovingAverage(maData, maWindow)
    \* ---- outlier removal (removeOutliers)
    outPc,          \* idle / input / done
    outRecords,     \* the record list handed to removeOutliers
    outPercentile,  \* percentile
    outResult,      \* removeOutliers(outRecords, outPercentile)
    \* ---- the statistics cards (getStats, getImpactStats)
    statPc,         \* idle / input / velocity / impact
    statRecords,    \* the record list handed to getStats and getImpactStats
    statAuthor,     \* the author filter; "" stands for null (both are falsy)
    statResult,     \* getStats(statRecords, statAuthor)
    statImpact,     \* getImpactStats(statRecords, statAuthor)
    \* ---- the dashboard (Dashboard: initial load, loadData, handleRefresh)
    loadPc,         \* the initial fetch of pr-velocity.csv: idle / fetching / settled
    fileText,       \* what the initial fetch answered with: <<>> or <<text>>
    dashRecords,    \* Dashboard state allRecords
    isLoading,      \* Dashboard state isLoading
    error,          \* Dashboard state error; "" stands for null (both are falsy)
    isRefreshing,   \* Dashboard state isRefreshing
    refreshingRepo, \* Dashboard state refreshingRepo; "" stands for null
    refreshPc,      \* handleRefresh: off / idle / requesting / reading
    refreshes,      \* refreshes started so far (bounded by MaxRefreshes)
    stream,         \* the whole text the response body is going to deliver
    readPos,        \* how many characters of it reader.read() has delivered
    buffer,         \* handleRefresh: buffer
    csvContent,     \* handleRefresh: csvContent
    serverError,    \* handleRefresh: serverError; "" stands for null
    lastRead        \* how the last await of handleRefresh settled

ingestVars == <<pat, withLoc, hasOnProgress, pc, repos, repoIdx, skip, prs, prIdx,
                commits, commitIdx, totalAdded, totalDeleted, allRecords, requests,
                outcomes, inFlight, failures, progress, csvFile, summaryFile, thrown>>

codecVars == <<codecPc, codecRecords, codecText, codecParsed>>

aggVars == <<aggPc, tz, aggRecords, aggData, aggImpact>>

\* The dashboard's helpers.
maVars == <<maPc, maData, maWindow, maResult>>

outVars == <<outPc, outRecords, outPercentile, outResult>>

statVars == <<statPc, statRecords, statAuthor, statResult, statImpact>>

\* The dashboard component.
dashVars == <<loadPc, fileText, dashRecords, isLoading, error, isRefreshing,
              refreshingRepo, refreshPc, refreshes, stream, readPos, buffer,
              csvContent, serverError, lastRead>>

helperVars == <<aggVars, maVars, outVars, statVars, dashVars>>

vars == <<ingestVars, codecVars, helperVars>>

\* The parts of the model a specification does not exercise stay idle.
IngestIdle ==
    /\ pat = FALSE /\ withLoc = FALSE /\ hasOnProgress = FALSE
    /\ pc = "idle"
    /\ repos = <<>> /\ repoIdx = 0 /\ skip = 0 /\ prs = 0 /\ prIdx = 0
    /\ commits = <<>> /\ commitIdx = 0 /\ totalAdded = 0 /\ totalDeleted = 0
    /\ allRecords = <<>> /\ requests = <<>> /\ outcomes = <<>>
    /\ inFlight = 0 /\ failures = 0 /\ progress = <<>>
    /\ csvFile = <<>> /\ summaryFile = <<>> /\ thrown = ""

CodecIdle ==
    /\ codecPc = "idle" /\ codecRecords = <<>> /\ codecText = "" /\ codecParsed = <<>>

AggIdle ==
    /\ aggPc = "idle" /\ tz = "UTC" /\ aggRecords = <<>>
    /\ aggData = <<>> /\ aggImpact = <<>>

AverageIdle ==
    /\ maPc = "idle" /\ maData = <<>> /\ maWindow = 1 /\ maResult = <<>>

OutliersIdle ==
    /\ outPc = "idle" /\ outRecords = <<>> /\ outPercentile = 99 /\ outResult = <<>>

StatsIdle ==
    /\ statPc = "idle" /\ statRecords = <<>> /\ statAuthor = ""
    /\ statResult = <<>> /\ statImpact = <<>>

DashIdle ==
    /\ loadPc = "idle" /\ fileText = <<>> /\ dashRecords = <<>> /\ isLoading = TRUE
    /\ error = "" /\ isRefreshing = FALSE /\ refreshingRepo = ""
    /\ refreshPc = "off" /\ refreshes = 0 /\ stream = "" /\ readPos = 0
    /\ buffer = "" /\ csvContent = "" /\ serverError = "" /\ lastRead = ""

HelpersIdle == AggIdle /\ AverageIdle /\ OutliersIdle /\ StatsIdle /\ DashIdle

-----------------------------------------------------------------------------
(* Characters, numbers and strings                                         *)

Min(a, b) == IF a <= b THEN a ELSE b

Max(a, b) == IF a >= b THEN a ELSE b

CharAt(s, i) == SubSeq(s, i, i)

Digits == "0123456789"

IsDigit(c) == \E k \in 1..10 : CharAt(Digits, k) = c

DigitVal(c) == (CHOOSE k \in 1..10 : CharAt(Digits, k) = c) - 1

\* The unsigned integer whose decimal digits are s (s all digits).
RECURSIVE DigitsVal(_, _)
DigitsVal(s, acc) ==
    IF s = "" THEN acc
    ELSE DigitsVal(SubSeq(s, 2, Len(s)), acc * 10 + DigitVal(CharAt(s, 1)))

AllDigits(s) == s # "" /\ \A i \in 1..Len(s) : IsDigit(CharAt(s, i))

\* Number.prototype.toString / template interpolation of an integer.
RECURSIVE NatToString(_)
NatToString(n) ==
    IF n < 10 THEN CharAt(Digits, n + 1)
    ELSE NatToString(n \div 10) \o CharAt(Digits, (n % 10) + 1)

NumToString(n) == IF n < 0 THEN "-" \o NatToString(0 - n) ELSE NatToString(n)

Pad2(n) == IF n < 10 THEN "0" \o NatToString(n) ELSE NatToString(n)

Pad4(n) ==
    IF n < 10 THEN "000" \o NatToString(n)
    ELSE IF n < 100 THEN "00" \o NatToString(n)
    ELSE IF n < 1000 THEN "0" \o NatToString(n)
    ELSE NatToString(n)

\* UTF-16 code unit order of the characters the model uses.
CodeOrder == "\n \",-0123456789:ABCDEFGHIJKLMNOPQRSTUVWXYZabcdefghijklmnopqrstuvwxyz"

CharCode(c) == CHOOSE k \in 1..Len(CodeOrder) : CharAt(CodeOrder, k) = c

\* a < b as strings (code-unit order; String.prototype.localeCompare agrees
\* with it on the digits and '-' of an ISO date).
RECURSIVE StrLess(_, _)
StrLess(a, b) ==
    IF b = "" THEN FALSE
    ELSE IF a = "" THEN TRUE
    ELSE IF CharAt(a, 1) = CharAt(b, 1)
         THEN StrLess(SubSeq(a, 2, Len(a)), SubSeq(b, 2, Len(b)))
         ELSE CharCode(CharAt(a, 1)) < CharCode(CharAt(b, 1))

-----------------------------------------------------------------------------
(* Dates: new Date(string), getTime(), toISOString()                       *)

NaN == -1

\* Days from 1970-01-01 to the civil date y-m-d (proleptic Gregorian).
DaysFromCivil(y, m, d) ==
    LET yy == IF m <= 2 THEN y - 1 ELSE y
        era == yy \div 400
        yoe == yy - era * 400
        mp == IF m > 2 THEN m - 3 ELSE m + 9
        doy == (153 * mp + 2) \div 5 + d - 1
        doe == yoe * 365 + yoe \div 4 - yoe \div 100 + doy
    IN  era * 146097 + doe - 719468

\* The civil date <<y, m, d>> of day z since 1970-01-01.
CivilFromDays(z) ==
    LET zz == z + 719468
        era == zz \div 146097
        doe == zz - era * 146097
        yoe == (doe - doe \div 1460 + doe \div 36524 - doe \div 146096) \div 365
        doy == doe - (365 * yoe + yoe \div 4 - yoe \div 100)
        mp == (5 * doy + 2) \div 153
        d == doy - (153 * mp + 2) \div 5 + 1
        m == IF mp < 10 THEN mp + 3 ELSE mp - 9
        y == yoe + era * 400 + (IF m <= 2 THEN 1 ELSE 0)
    IN  <<y, m, d>>

DaysInMonth(y, m) ==
    IF m = 12 THEN 31 ELSE DaysFromCivil(y, m + 1, 1) - DaysFromCivil(y, m, 1)

\* s is YYYY-MM-DD naming a date of the calendar.
IsISODate(s) ==
    /\ Len(s) = 10
    /\ CharAt(s, 5) = "-" /\ CharAt(s, 8) = "-"
    /\ AllDigits(SubSeq(s, 1, 4)) /\ AllDigits(SubSeq(s, 6, 7)) /\ AllDigits(SubSeq(s, 9, 10))
    /\ LET y == DigitsVal(SubSeq(s, 1, 4), 0)
           m == DigitsVal(SubSeq(s, 6, 7), 0)
           d == DigitsVal(SubSeq(s, 9, 10), 0)
       IN  m \in 1..12 /\ d \in 1..DaysInMonth(y, m)

\* s is YYYY-MM-DDTHH:00:00Z, the form the upstream sends a closedDate in.
IsISODateTime(s) ==
    /\ Len(s) = 20
    /\ IsISODate(SubSeq(s, 1, 10))
    /\ CharAt(s, 11) = "T" /\ SubSeq(s, 14, 20) = ":00:00Z"
    /\ AllDigits(SubSeq(s, 12, 13)) /\ DigitsVal(SubSeq(s, 12, 13), 0) \in 0..23

\* new Date(s).getTime(): a date-only form is UTC midnight, a date-time form
\* ending in Z is UTC, anything else the model uses is an Invalid Date.
DateParse(s) ==
    LET day == DaysFromCivil(DigitsVal(SubSeq(s, 1, 4), 0),
                             DigitsVal(SubSeq(s, 6, 7), 0),
                             DigitsVal(SubSeq(s, 9, 10), 0))
    IN  IF IsISODate(s) THEN day * 24
        ELSE IF IsISODateTime(s) THEN day * 24 + DigitsVal(SubSeq(s, 12, 13), 0)
        ELSE NaN

\* date.toISOString().split("T")[0]: the UTC calendar date of the instant t.
ToISODate(t) ==
    LET c == CivilFromDays(t \div 24)
    IN  Pad4(c[1]) \o "-" \o Pad2(c[2]) \o "-" \o Pad2(c[3])

-----------------------------------------------------------------------------
(* The upstream organisation the run reads                                 *)

\* fetchPRData: const top = 1000
top == 1000

\* new Date() minus yearsBack years: the instant the run's cutoff falls on.
cutoffDate == DateParse("2024-03-15T10:00:00Z")

\* Upstream failures (non-success responses, rejected fetches) in one run.
MaxFailures == 1

RepoEntry(id, name, project) == [id |-> id, name |-> name, project |-> project]

Web == RepoEntry(1, "web", "Alpha")

Api == RepoEntry(2, "api", "Alpha")

Docs == RepoEntry(3, "docs", "Beta")

Lib == RepoEntry(4, "lib", "Beta")

\* repo.name is missing
NoName == RepoEntry(5, "", "Beta")

\* repo.project?.name is missing
NoProject == RepoEntry(6, "orphan", "")

\* The repository listings the upstream may answer with.
Listings ==
    { <<>>, <<Web>>, <<Api, Web>>, <<Web, NoProject, Api>>,
      <<NoName, Lib, Docs>>, <<Docs, Api>> }

\* Number of completed pull requests of a repository.
PRCount(repoId) ==
    CASE repoId = 1 -> 2400
      [] repoId = 2 -> 3
      [] repoId = 4 -> 1000
      [] OTHER -> 0

PullRequest(id, closed, title, displayName, uniqueName) ==
    [pullRequestId |-> id, closedDate |-> closed, title |-> title,
     displayName |-> displayName, uniqueName |-> uniqueName]

\* The i-th completed pull request of a repository, in the upstream's order.
\* closedDate "" is a missing closedDate, displayName "" a missing createdBy.
Item(repoId, i) ==
    LET id == repoId * 10000 + i
    IN  CASE repoId = 1 /\ i = 1 ->
               PullRequest(id, "2025-01-10T08:00:00Z", "a,b", "Ann", "ann@x")
          [] repoId = 1 /\ i = 2 -> PullRequest(id, "", "open", "Bob", "bob@x")
          [] repoId = 1 /\ i = 3 -> PullRequest(id, "n/a", "odd", "Bob", "bob@x")
          [] repoId = 1 /\ i = 1000 ->
               PullRequest(id, "2024-03-15T10:00:00Z", "\"q\"", "Bob", "bob@x")
          [] repoId = 1 /\ i = 1001 ->
               PullRequest(id, "2024-03-15T09:00:00Z", "late", "Ann", "ann@x")
          [] repoId = 1 /\ i = 2400 ->
               PullRequest(id, "2024-06-01T23:00:00Z", "", "", "")
          [] repoId = 2 /\ i = 1 ->
               PullRequest(id, "2025-02-01T00:00:00Z", "x", "Bob", "bob@x")
          [] repoId = 2 /\ i = 2 -> PullRequest(id, "", "y", "Ann", "ann@x")
          [] repoId = 2 /\ i = 3 ->
               PullRequest(id, "2024-12-31T23:00:00Z", "z", "Ann", "ann@x")
          [] repoId = 4 /\ i = 500 ->
               PullRequest(id, "2024-07-04T12:00:00Z", "mid", "Cy", "cy@x")
          [] OTHER -> PullRequest(id, "2020-01-01T00:00:00Z", "old", "Ann", "ann@x")

\* Length of the page the upstream returns for $skip = sk, $top = tp.
PageLength(repoId, sk, tp) == Max(0, Min(tp, PRCount(repoId) - sk))

\* The commits of a pull request (commit ids).
CommitsOf(prId) ==
    CASE prId = 10001 -> <<1, 2>>
      [] prId = 12400 -> <<3>>
      [] prId = 20001 -> <<2>>
      [] prId = 20003 -> <<3, 1>>
      [] prId = 40500 -> <<1>>
      [] OTHER -> <<>>

\* commitData.changeCounts of a commit: a map from Add / Edit / Delete to a
\* file count, a missing key being a missing count; commit 3 has no
\* changeCounts at all.
HasChangeCounts(commitId) == commitId # 3

ChangeCounts(commitId) ==
    CASE commitId = 1 -> [Add |-> 1, Edit |-> 2, Delete |-> 3]
      [] commitId = 2 -> [Add |-> 2]
      [] OTHER -> [Add |-> 0]

\* commitData.changeCounts.<k> || 0
CountOr0(cc, k) == IF k \in DOMAIN cc THEN cc[k] ELSE 0

-----------------------------------------------------------------------------
(* fetchPRData: the per-record filter, the record, the sort, the files     *)

\* Variant: the filter compares calendar days, not instants.
PassesFilterByDay(pr) ==
    /\ pr.closedDate # ""
    /\ DateParse(pr.closedDate) # NaN
    /\ DateParse(pr.closedDate) \div 24 >= cutoffDate \div 24

\* for (const pr of prs): if (!pr.closedDate) continue; ... if (closedDate >= cutoffDate)
PassesFilter(pr) ==
    /\ pr.closedDate # ""
    /\ DateParse(pr.closedDate) # NaN
    /\ DateParse(pr.closedDate) >= cutoffDate

\* PassesFilter of every pull request of the upstream, evaluated once.
FilterResults ==
    [r \in 1..6 |-> {i \in 1..PRCount(r) : PassesFilter(Item(r, i))}]

Passes(repoId, i) == i \in FilterResults[repoId]

\* The record pushed for a pull request that passes the filter.
MakeRecord(repo, pr, linesAdded, linesDeleted) ==
    [author |-> IF pr.displayName = "" THEN "Unknown" ELSE pr.displayName,
     authorEmail |-> pr.uniqueName,
     project |-> repo.project,
     repository |-> repo.name,
     closedDate |-> ToISODate(DateParse(pr.closedDate)),
     prId |-> pr.pullRequestId,
     title |-> pr.title,
     linesAdded |-> linesAdded,
     linesDeleted |-> linesDeleted]

\* The elements of a finite set of integers in ascending order.
RECURSIVE Ascending(_)
Ascending(S) ==
    IF S = {} THEN <<>>
    ELSE LET m == CHOOSE x \in S : \A y \in S : x <= y
         IN  <<m>> \o Ascending(S \ {m})

\* Variant: the comparator's operands swapped, latest first.
RECURSIVE SortByClosedDateDescending(_)
SortByClosedDateDescending(recs) ==
    IF recs = <<>> THEN <<>>
    ELSE LET n == Len(recs)
             init == SortByClosedDateDescending(SubSeq(recs, 1, n - 1))
             x == recs[n]
             k == Cardinality({i \in 1..Len(init) :
                                 ~StrLess(init[i].closedDate, x.closedDate)})
         IN  SubSeq(init, 1, k) \o <<x>> \o SubSeq(init, k + 1, Len(init))

\* Array.prototype.sort with (a, b) => a.closedDate.localeCompare(b.closedDate):
\* a stable sort; here, insertion of each element after its last not-greater one.
RECURSIVE SortByClosedDate(_)
SortByClosedDate(recs) ==
    IF recs = <<>> THEN <<>>
    ELSE LET n == Len(recs)
             init == SortByClosedDate(SubSeq(recs, 1, n - 1))
             x == recs[n]
             k == Cardinality({i \in 1..Len(init) :
                                 ~StrLess(x.closedDate, init[i].closedDate)})
         IN  SubSeq(init, 1, k) \o <<x>> \o SubSeq(init, k + 1, Len(init))

\* r.title.replace(/"/g, '""')
RECURSIVE DoubleQuotes(_)
DoubleQuotes(t) ==
    IF t = "" THEN ""
    ELSE (IF CharAt(t, 1) = "\"" THEN "\"\"" ELSE CharAt(t, 1))
         \o DoubleQuotes(SubSeq(t, 2, Len(t)))

csvHeader == "Author,AuthorEmail,Project,Repository,ClosedDate,PRId,Title,LinesAdded,LinesDeleted"

\* One line of csvLines.
CsvLine(r) ==
    r.author \o "," \o r.authorEmail \o "," \o r.project \o "," \o r.repository
    \o "," \o r.closedDate \o "," \o NumToString(r.prId)
    \o "," \o "\"" \o DoubleQuotes(r.title) \o "\""
    \o "," \o NumToString(r.linesAdded) \o "," \o NumToString(r.linesDeleted)

\* csvLines.join("\n")
RECURSIVE JoinLines(_)
JoinLines(lines) ==
    IF Len(lines) = 0 THEN ""
    ELSE IF Len(lines) = 1 THEN lines[1]
    ELSE lines[1] \o "\n" \o JoinLines(Tail(lines))

\* The CSV text of a record list: the header, then one line per record.
EncodeCSV(recs) == JoinLines(<<csvHeader>> \o [i \in 1..Len(recs) |-> CsvLine(recs[i])])

RECURSIVE SumOver(_, _)
SumOver(recs, field) ==
    IF recs = <<>> THEN 0 ELSE recs[1][field] + SumOver(Tail(recs), field)

Select(recs, key, v) == SelectSeq(recs, LAMBDA r : r[key] = v)

\* The summary document written beside the record file.
Summary(recs) ==
    LET authors == {recs[i].author : i \in 1..Len(recs)}
        projects == {recs[i].project : i \in 1..Len(recs)}
        months == {SubSeq(recs[i].closedDate, 1, 7) : i \in 1..Len(recs)}
    IN  [byAuthor |-> [a \in authors |-> Len(Select(recs, "author", a))],
         byProject |-> [q \in projects |-> Len(Select(recs, "project", q))],
         byMonth |-> [m \in months |->
                        Cardinality({i \in 1..Len(recs) :
                                       SubSeq(recs[i].closedDate, 1, 7) = m})],
         totalPRs |-> Len(recs),
         locByAuthor |-> [a \in authors |->
                            [added |-> SumOver(Select(recs, "author", a), "linesAdded"),
                             deleted |-> SumOver(Select(recs, "author", a), "linesDeleted")]],
         totalLinesAdded |-> SumOver(recs, "linesAdded"),
         totalLinesDeleted |-> SumOver(recs, "linesDeleted")]

-----------------------------------------------------------------------------
(* fetchPRData: the run, one action per settled await                      *)

\* The run's state as one record, so that the code between two awaits is a
\* composition of operators on it.
Cur ==
    [pc |-> pc, repos |-> repos, repoIdx |-> repoIdx, skip |-> skip, prs |-> prs,
     prIdx |-> prIdx, commits |-> commits, commitIdx |-> commitIdx,
     totalAdded |-> totalAdded, totalDeleted |-> totalDeleted,
     allRecords |-> allRecords, requests |-> requests, outcomes |-> outcomes,
     inFlight |-> inFlight,
     progress |-> progress, csvFile |-> csvFile, summaryFile |-> summaryFile,
     thrown |-> thrown]

Become(st) ==
    /\ pc' = st.pc
    /\ repos' = st.repos
    /\ repoIdx' = st.repoIdx
    /\ skip' = st.skip
    /\ prs' = st.prs
    /\ prIdx' = st.prIdx
    /\ commits' = st.commits
    /\ commitIdx' = st.commitIdx
    /\ totalAdded' = st.totalAdded
    /\ totalDeleted' = st.totalDeleted
    /\ allRecords' = st.allRecords
    /\ requests' = st.requests
    /\ outcomes' = st.outcomes
    /\ inFlight' = st.inFlight
    /\ progress' = st.progress
    /\ csvFile' = st.csvFile
    /\ summaryFile' = st.summaryFile
    /\ thrown' = st.thrown

\* await fetch(...): the request is issued and the run suspends. repo is the
\* position in repos of the repository asked about (0 for the listing), arg
\* the offset ($skip), the pull request id or the commit id.
Fetch(st, kind, repo, arg) ==
    [st EXCEPT !.requests = Append(@, [kind |-> kind, repo |-> repo, arg |-> arg]),
               !.inFlight = @ + 1]

\* The awaited fetch has settled: "ok", "notok" (a non-success response) or
\* "rejected" (the fetch, or reading its body, threw).
Settled(st, outcome) ==
    [st EXCEPT !.inFlight = @ - 1, !.outcomes = Append(@, outcome)]

Ok == Settled(Cur, "ok")

NotOk == Settled(Cur, "notok")

Rejected == Settled(Cur, "rejected")

\* The locals of the estimator and of the page loop go out of scope.
LeaveEstimator(st) ==
    [st EXCEPT !.commits = <<>>, !.commitIdx = 0, !.totalAdded = 0, !.totalDeleted = 0]

LeavePage(st) == [LeaveEstimator(st) EXCEPT !.prs = 0, !.prIdx = 0]

\* After the repository loop: sort, CSV generation, the two files, return.
Finish(st) ==
    LET sorted == SortByClosedDate(st.allRecords)
    IN  [st EXCEPT !.pc = "done", !.repoIdx = Len(st.repos) + 1, !.skip = 0,
                   !.allRecords = sorted,
                   !.csvFile = <<EncodeCSV(sorted)>>,
                   !.summaryFile = <<Summary(sorted)>>]

\* if (!projectName || !repoName) continue
IsProcessed(repo) == repo.project # "" /\ repo.name # ""

\* Variant: progress is reported before the entries without a name are skipped.
ReposFromReportingAll(st, k) ==
    LET todo == {j \in k..Len(st.repos) : IsProcessed(st.repos[j])}
        j == CHOOSE x \in todo : \A y \in todo : x <= y
    IN  IF todo = {} THEN Finish(LeavePage(st))
        ELSE Fetch([LeavePage(st) EXCEPT
                       !.pc = "awaitPage", !.repoIdx = j, !.skip = 0,
                       !.progress = IF hasOnProgress
                                    THEN @ \o [x \in 1..(j - k + 1) |->
                                                  st.repos[k + x - 1].name]
                                    ELSE @],
                   "prs", j, 0)

\* for (const repo of repos), from position k on: skip the entries without a
\* name, report progress, fetch the first page; or leave the loop.
ReposFrom(st, k) ==
    LET todo == {j \in k..Len(st.repos) : IsProcessed(st.repos[j])}
        j == CHOOSE x \in todo : \A y \in todo : x <= y
    IN  IF todo = {} THEN Finish(LeavePage(st))
        ELSE Fetch([LeavePage(st) EXCEPT
                       !.pc = "awaitPage", !.repoIdx = j, !.skip = 0,
                       !.progress = IF hasOnProgress
                                    THEN Append(@, st.repos[j].name) ELSE @],
                   "prs", j, 0)

\* Variant: a full page ends the pagination too (prs.length <= top).
EndPageStopsOnFullPage(st) ==
    IF st.prs <= top THEN ReposFrom(st, st.repoIdx + 1)
    ELSE Fetch([LeavePage(st) EXCEPT !.pc = "awaitPage", !.skip = @ + top],
               "prs", st.repoIdx, st.skip + top)

\* End of a non-empty page: if (prs.length < top) hasMore = false; else skip += top
EndPage(st) ==
    IF st.prs < top THEN ReposFrom(st, st.repoIdx + 1)
    ELSE Fetch([LeavePage(st) EXCEPT !.pc = "awaitPage", !.skip = @ + top],
               "prs", st.repoIdx, st.skip + top)

\* Variant: a page without an item at or after the cutoff ends the pagination.
ItemsFromUntilOldPage(st, from) ==
    LET repo == st.repos[st.repoIdx]
        pass == {i \in from..st.prs : Passes(repo.id, st.skip + i)}
        order == Ascending(pass)
        first == CHOOSE x \in pass : \A y \in pass : x <= y
    IN  IF {i \in 1..st.prs : Passes(repo.id, st.skip + i)} = {}
        THEN ReposFrom(st, st.repoIdx + 1)
        ELSE IF ~withLoc
        THEN EndPage([st EXCEPT !.allRecords = @ \o
                        [n \in 1..Len(order) |->
                           MakeRecord(repo, Item(repo.id, st.skip + order[n]), 0, 0)]])
        ELSE IF pass = {} THEN EndPage(st)
        ELSE Fetch([st EXCEPT !.pc = "awaitCommits", !.prIdx = first],
                   "commits", st.repoIdx,
                   Item(repo.id, st.skip + first).pullRequestId)

\* for (const pr of prs), from position `from` on. Without LOC stats the loop
\* has no await and runs to the end of the page; with them it suspends in
\* getPRChangeStats at the first item that passes the filter.
ItemsFrom(st, from) ==
    LET repo == st.repos[st.repoIdx]
        pass == {i \in from..st.prs : Passes(repo.id, st.skip + i)}
        order == Ascending(pass)
        first == CHOOSE x \in pass : \A y \in pass : x <= y
    IN  IF ~withLoc
        THEN EndPage([st EXCEPT !.allRecords = @ \o
                        [n \in 1..Len(order) |->
                           MakeRecord(repo, Item(repo.id, st.skip + order[n]), 0, 0)]])
        ELSE IF pass = {} THEN EndPage(st)
        ELSE Fetch([st EXCEPT !.pc = "awaitCommits", !.prIdx = first],
                   "commits", st.repoIdx,
                   Item(repo.id, st.skip + first).pullRequestId)

\* Variant: the estimator's result is dropped, the record keeps its zeros.
PushRecordWithoutStats(st, added, deleted) ==
    LET repo == st.repos[st.repoIdx]
        pr == Item(repo.id, st.skip + st.prIdx)
    IN  ItemsFrom([LeaveEstimator(st) EXCEPT
                      !.allRecords = Append(@, MakeRecord(repo, pr, 0, 0))],
                  st.prIdx + 1)

\* getPRChangeStats has returned {added, deleted} for item prIdx: the record
\* is pushed and the item loop goes on.
PushRecord(st, added, deleted) ==
    LET repo == st.repos[st.repoIdx]
        pr == Item(repo.id, st.skip + st.prIdx)
    IN  ItemsFrom([LeaveEstimator(st) EXCEPT
                      !.allRecords = Append(@, MakeRecord(repo, pr, added, deleted))],
                  st.prIdx + 1)

\* Variant: the detail fetch of the next commit is started along with this one.
CommitsFromTwoAtOnce(st, k) ==
    LET one == Fetch([st EXCEPT !.pc = "awaitCommit", !.commitIdx = k],
                     "commit", st.repoIdx, st.commits[k])
    IN  IF k > Len(st.commits) THEN PushRecord(st, st.totalAdded, st.totalDeleted)
        ELSE IF k = Len(st.commits) THEN one
        ELSE Fetch(one, "commit", st.repoIdx, st.commits[k + 1])

\* getPRChangeStats: for (const commit of commits), from position k on.
CommitsFrom(st, k) ==
    IF k > Len(st.commits) THEN PushRecord(st, st.totalAdded, st.totalDeleted)
    ELSE Fetch([st EXCEPT !.pc = "awaitCommit", !.commitIdx = k],
               "commit", st.repoIdx, st.commits[k])

\* Variant: an edit counts for the 20 added lines of the code's comment.
AddCountsTwentyPerEdit(st, commitId) ==
    LET cc == ChangeCounts(commitId)
        adds == CountOr0(cc, "Add")
        edits == CountOr0(cc, "Edit")
        deletes == CountOr0(cc, "Delete")
    IN  IF ~HasChangeCounts(commitId) THEN st
        ELSE [st EXCEPT !.totalAdded = @ + (adds * 50) + (edits * 20),
                        !.totalDeleted = @ + (deletes * 30) + (edits * 5)]

\* totalAdded += adds*50 + edits*15; totalDeleted += deletes*30 + edits*5
AddCounts(st, commitId) ==
    LET cc == ChangeCounts(commitId)
        adds == CountOr0(cc, "Add")
        edits == CountOr0(cc, "Edit")
        deletes == CountOr0(cc, "Delete")
    IN  IF ~HasChangeCounts(commitId) THEN st
        ELSE [st EXCEPT !.totalAdded = @ + (adds * 50) + (edits * 15),
                        !.totalDeleted = @ + (deletes * 30) + (edits * 5)]

Options == <<pat, withLoc, hasOnProgress>>

MayFail == failures < MaxFailures

NotIngest == <<codecVars, helperVars>>

Failed == failures' = failures + 1 /\ UNCHANGED <<Options, NotIngest>>

Succeeded == UNCHANGED <<failures, Options, NotIngest>>

\* Variant: the listing is fetched without the credential check.
StartWithoutCheck ==
    /\ pc = "start"
    /\ Become(Fetch([Cur EXCEPT !.pc = "awaitRepos"], "repos", 0, 0))
    /\ Succeeded

\* const pat = process.env.AZURE_DEVOPS_PAT; if (!pat) throw ...; then the listing.
Start ==
    /\ pc = "start"
    /\ IF ~pat
       THEN Become([Cur EXCEPT !.pc = "failed",
                      !.thrown = "AZURE_DEVOPS_PAT environment variable is required"])
       ELSE Become(Fetch([Cur EXCEPT !.pc = "awaitRepos"], "repos", 0, 0))
    /\ Succeeded

\* Variant: a failed listing is taken for an empty one.
ReposNotOkIgnored ==
    /\ pc = "awaitRepos" /\ MayFail
    /\ Become(ReposFrom([NotOk EXCEPT !.repos = <<>>], 1))
    /\ Failed

\* if (!reposResponse.ok) throw new Error(`Failed to fetch repos: ...`)
ReposNotOk ==
    /\ pc = "awaitRepos" /\ MayFail
    /\ Become([NotOk EXCEPT !.pc = "failed", !.thrown = "Failed to fetch repos"])
    /\ Failed

\* The listing fetch rejects: nothing catches it.
ReposRejected ==
    /\ pc = "awaitRepos" /\ MayFail
    /\ Become([Rejected EXCEPT !.pc = "failed", !.thrown = "fetch failed"])
    /\ Failed

ReposOk ==
    /\ pc = "awaitRepos"
    /\ \E listing \in Listings :
          Become(ReposFrom([Ok EXCEPT !.repos = listing], 1))
    /\ Succeeded

\* if (!prsResponse.ok) { hasMore = false; continue; }
PageNotOk ==
    /\ pc = "awaitPage" /\ MayFail
    /\ Become(ReposFrom(NotOk, repoIdx + 1))
    /\ Failed

\* Variant: the page loop has no try/catch, a rejected page fetch ends the run.
PageRejectedUncaught ==
    /\ pc = "awaitPage" /\ MayFail
    /\ Become([Rejected EXCEPT !.pc = "failed", !.thrown = "fetch failed"])
    /\ Failed

\* catch (error) { hasMore = false; }
PageRejected ==
    /\ pc = "awaitPage" /\ MayFail
    /\ Become(ReposFrom(Rejected, repoIdx + 1))
    /\ Failed

\* The page arrives: empty ends the repository, otherwise the item loop runs.
PageOk ==
    /\ pc = "awaitPage"
    /\ LET n == PageLength(repos[repoIdx].id, skip, top)
       IN  IF n = 0 THEN Become(ReposFrom(Ok, repoIdx + 1))
           ELSE Become(ItemsFrom([Ok EXCEPT !.prs = n], 1))
    /\ Succeeded

\* if (!commitsResponse.ok) return { added: 0, deleted: 0 }
CommitsNotOk ==
    /\ pc = "awaitCommits" /\ MayFail
    /\ Become(PushRecord(NotOk, 0, 0))
    /\ Failed

\* catch { return { added: 0, deleted: 0 } }
CommitsRejected ==
    /\ pc = "awaitCommits" /\ MayFail
    /\ Become(PushRecord(Rejected, 0, 0))
    /\ Failed

CommitsOk ==
    /\ pc = "awaitCommits"
    /\ LET pr == Item(repos[repoIdx].id, skip + prIdx)
       IN  Become(CommitsFrom([Ok EXCEPT
                                  !.commits = CommitsOf(pr.pullRequestId),
                                  !.totalAdded = 0, !.totalDeleted = 0], 1))
    /\ Succeeded

\* if (commitResponse.ok) {...}: a non-success detail response adds nothing.
CommitNotOk ==
    /\ pc = "awaitCommit" /\ MayFail
    /\ Become(CommitsFrom(NotOk, commitIdx + 1))
    /\ Failed

\* The detail fetch rejects: the catch of getPRChangeStats returns {0, 0}.
CommitRejected ==
    /\ pc = "awaitCommit" /\ MayFail
    /\ Become(PushRecord(Rejected, 0, 0))
    /\ Failed

CommitOk ==
    /\ pc = "awaitCommit"
    /\ Become(CommitsFrom(AddCounts(Ok, commits[commitIdx]), commitIdx + 1))
    /\ Succeeded

IngestInit ==
    /\ pat \in BOOLEAN
    /\ withLoc \in BOOLEAN
    /\ hasOnProgress \in BOOLEAN
    /\ pc = "start"
    /\ repos = <<>>
    /\ repoIdx = 0
    /\ skip = 0
    /\ prs = 0
    /\ prIdx = 0
    /\ commits = <<>>
    /\ commitIdx = 0
    /\ totalAdded = 0
    /\ totalDeleted = 0
    /\ allRecords = <<>>
    /\ requests = <<>>
    /\ outcomes = <<>>
    /\ inFlight = 0
    /\ failures = 0
    /\ progress = <<>>
    /\ csvFile = <<>>
    /\ summaryFile = <<>>
    /\ thrown = ""

Init == IngestInit /\ CodecIdle /\ HelpersIdle

Next ==
    \/ Start
    \/ ReposNotOk
    \/ ReposRejected
    \/ ReposOk
    \/ PageNotOk
    \/ PageRejected
    \/ PageOk
    \/ CommitsNotOk
    \/ CommitsRejected
    \/ CommitsOk
    \/ CommitNotOk
    \/ CommitRejected
    \/ CommitOk

Spec == Init /\ [][Next]_vars

-----------------------------------------------------------------------------
(* Claims about the ingestion run                                          *)

Range(f) == {f[x] : x \in DOMAIN f}

\* The page requests of the repository at position j of repos, in order.
PageRequests(j) == SelectSeq(requests, LAMBDA r : r.kind = "prs" /\ r.repo = j)

\* A page request of the repository at position j failed.
PageFailed(j) ==
    \E n \in DOMAIN outcomes :
        requests[n].kind = "prs" /\ requests[n].repo = j /\ outcomes[n] # "ok"

\* The for..of over repos is past position j.
Paginated(j) == repoIdx > j

\* C2: the pagination of a repository starts at offset 0 and advances by
\* exactly top after each full page; every page before the last fetched one
\* was full; once the pagination is over and no page failed, the upstream's
\* k full pages and its short (or empty) page have had exactly k + 1 fetches,
\* the last one of a page shorter than top; web's pages of 1000, 1000 and 400
\* items have had exactly the fetches at 0, 1000 and 2000.
C2_Pagination ==
    \A j \in 1..Len(repos) :
        LET reqs == PageRequests(j)
            id == repos[j].id
        IN  /\ \A n \in 1..Len(reqs) : reqs[n].arg = (n - 1) * top
            /\ \A n \in 1..(Len(reqs) - 1) : PageLength(id, reqs[n].arg, top) = top
            /\ (Paginated(j) /\ IsProcessed(repos[j]) /\ ~PageFailed(j)) =>
                  /\ Len(reqs) = (PRCount(id) \div top) + 1
                  /\ PageLength(id, reqs[Len(reqs)].arg, top) < top
                  /\ repos[j] = Web =>
                        [n \in 1..Len(reqs) |-> reqs[n].arg] = <<0, 1000, 2000>>

\* A finished run that paginated web (2400 pull requests) without a failure.
C2_Witness ==
    /\ pc = "done" /\ failures = 0
    /\ \E j \in 1..Len(repos) : repos[j] = Web /\ Len(PageRequests(j)) = 3

\* The upstream pull request a record was made from.
ItemOfRecord(rec) == Item(rec.prId \div 10000, rec.prId % 10000)

\* C3: every record of the accumulator comes from an upstream pull request
\* that has a closedDate, whose closedDate is on or after the cutoff; the
\* record carries that instant's date.
C3_RecordsPassCutoff ==
    \A n \in DOMAIN allRecords :
        LET pr == ItemOfRecord(allRecords[n])
        IN  /\ pr.pullRequestId = allRecords[n].prId
            /\ allRecords[n].prId % 10000 \in 1..PRCount(allRecords[n].prId \div 10000)
            /\ pr.closedDate # ""
            /\ DateParse(pr.closedDate) # NaN
            /\ DateParse(pr.closedDate) >= cutoffDate
            /\ allRecords[n].closedDate = ToISODate(DateParse(pr.closedDate))

\* web's first page has been processed: it holds a pull request without a
\* closedDate, one with an unreadable one, old ones, and one closed at the
\* very instant of the cutoff, which is the only one of these with a record.
C3_Witness ==
    /\ \E j \in 1..Len(repos) : repos[j] = Web /\ Len(PageRequests(j)) >= 2
    /\ \E n \in DOMAIN allRecords : allRecords[n].prId = 11000
    /\ \A n \in DOMAIN allRecords : allRecords[n].prId \notin {10002, 10003, 10004}

\* C4: a failed page request (non-success response or rejected fetch) ends
\* the pagination of its repository at once (no later request names that
\* repository), raises nothing, and leaves every later processed repository
\* the loop reaches paginated from offset 0; the step that handles the
\* failure keeps every record accumulated before it.
C4_PageFailureIsLocal ==
    /\ [](\A n \in DOMAIN outcomes :
            (requests[n].kind = "prs" /\ outcomes[n] # "ok") =>
               /\ \A m \in (n + 1)..Len(requests) : requests[m].repo # requests[n].repo
               /\ thrown = "" /\ pc # "failed"
               /\ \A j \in (requests[n].repo + 1)..Len(repos) :
                     (IsProcessed(repos[j]) /\ repoIdx >= j) =>
                        /\ PageRequests(j) # <<>>
                        /\ PageRequests(j)[1].arg = 0
                        /\ \E m \in (n + 1)..Len(requests) :
                              requests[m] = PageRequests(j)[1])
    /\ [][(pc = "awaitPage" /\ failures' = failures + 1) =>
             /\ Len(allRecords') = Len(allRecords)
             /\ \A rec \in Range(allRecords) : rec \in Range(allRecords')
             /\ pc' = "done" \/ (pc' = "awaitPage" /\ skip' = 0 /\ repoIdx' > repoIdx)]_vars

\* A finished run in which web's second page failed: the records of its
\* first page are kept and the repository after it was paginated.
C4_Witness ==
    /\ pc = "done" /\ thrown = ""
    /\ \E n \in DOMAIN outcomes :
          /\ requests[n].kind = "prs" /\ requests[n].arg = top /\ outcomes[n] # "ok"
          /\ \E m \in (n + 1)..Len(requests) :
                requests[m].kind = "prs" /\ requests[m].arg = 0
    /\ \E n \in DOMAIN allRecords : allRecords[n].prId = 10001
    /\ \E n \in DOMAIN allRecords : allRecords[n].prId = 20001

\* C5: when the repository listing answers with a non-success response the
\* run has failed with an error, the listing is the only request issued,
\* onProgress was never called and neither file is written.
C5_ListingFailureIsFatal ==
    (Len(outcomes) >= 1 /\ outcomes[1] = "notok") =>
        /\ pc = "failed" /\ thrown = "Failed to fetch repos"
        /\ requests = <<[kind |-> "repos", repo |-> 0, arg |-> 0]>>
        /\ inFlight = 0
        /\ progress = <<>>
        /\ csvFile = <<>> /\ summaryFile = <<>>

C5_Witness == outcomes = <<"notok">> /\ hasOnProgress

\* C6: without the credential no request is ever issued, and once the run
\* has started it has failed with the configuration error.
C6_NoRequestWithoutCredential ==
    ~pat =>
        /\ requests = <<>> /\ inFlight = 0
        /\ pc \in {"start", "failed"}
        /\ pc = "failed" =>
              thrown = "AZURE_DEVOPS_PAT environment variable is required"

C6_Witness == ~pat /\ pc = "failed"

-----------------------------------------------------------------------------
(* parseCSV                                                                *)

\* The white space String.prototype.trim and parseInt strip.
IsSpace(c) == c \in {" ", "\n", "\t", "\r"}

\* s without its leading white space.
TrimStart(s) ==
    LET kept == {i \in 1..Len(s) : ~IsSpace(CharAt(s, i))}
    IN  IF kept = {} THEN ""
        ELSE SubSeq(s, CHOOSE i \in kept : \A k \in kept : i <= k, Len(s))

\* s without its trailing white space.
TrimEnd(s) ==
    LET kept == {i \in 1..Len(s) : ~IsSpace(CharAt(s, i))}
    IN  IF kept = {} THEN ""
        ELSE SubSeq(s, 1, CHOOSE i \in kept : \A k \in kept : i >= k)

\* text.trim()
Trim(s) == TrimEnd(TrimStart(s))

\* s.split('\n'): the pieces of s between its newline characters.
SplitLines(s) ==
    LET cuts == Ascending({i \in 1..Len(s) : CharAt(s, i) = "\n"})
        from(k) == IF k = 1 THEN 1 ELSE cuts[k - 1] + 1
        to(k) == IF k > Len(cuts) THEN Len(s) ELSE cuts[k] - 1
    IN  [k \in 1..(Len(cuts) + 1) |-> SubSeq(s, from(k), to(k))]

\* Variant: every comma ends the value, inside quotes too.
CharStepSplittingInQuotes(st, char) ==
    IF char = "\"" THEN [st EXCEPT !.inQuotes = ~@]
    ELSE IF char = ","
    THEN [st EXCEPT !.values = Append(@, st.current), !.current = ""]
    ELSE [st EXCEPT !.current = @ \o char]

\* The body of the character loop of parseCSV: a quote toggles inQuotes and
\* is dropped, a comma outside quotes ends the value, any other character is
\* appended to the value.
CharStep(st, char) ==
    IF char = "\"" THEN [st EXCEPT !.inQuotes = ~@]
    ELSE IF char = "," /\ ~st.inQuotes
    THEN [st EXCEPT !.values = Append(@, st.current), !.current = ""]
    ELSE [st EXCEPT !.current = @ \o char]

\* for (let j = 0; j < line.length; j++), over the characters lo..hi, in
\* order: the first half of the range, then the second from the state the
\* first ends in (halving the range keeps the evaluation shallow).
RECURSIVE CharScan(_, _, _, _)
CharScan(line, lo, hi, st) ==
    IF lo > hi THEN st
    ELSE IF lo = hi THEN CharStep(st, CharAt(line, lo))
    ELSE LET mid == (lo + hi) \div 2
             half == CharScan(line, lo, mid, st)
         IN  IF half.inQuotes \in BOOLEAN
             THEN CharScan(line, mid + 1, hi, half)
             ELSE half

\* The values of one line: the loop, then values.push(current).
SplitValues(line) ==
    LET st == CharScan(line, 1, Len(line),
                       [values |-> <<>>, current |-> "", inQuotes |-> FALSE])
    IN  Append(st.values, st.current)

\* The longest prefix of s made of decimal digits.
RECURSIVE DigitPrefix(_)
DigitPrefix(s) ==
    IF s # "" /\ IsDigit(CharAt(s, 1))
    THEN CharAt(s, 1) \o DigitPrefix(SubSeq(s, 2, Len(s)))
    ELSE ""

\* Variant: parseInt(values[k]) without || 0, NaN where no digit is read.
ParseIntOrNaN(values, k) ==
    LET s == IF k <= Len(values) THEN TrimStart(values[k]) ELSE ""
        neg == s # "" /\ CharAt(s, 1) = "-"
        signed == s # "" /\ CharAt(s, 1) \in {"-", "+"}
        digits == DigitPrefix(IF signed THEN SubSeq(s, 2, Len(s)) ELSE s)
    IN  IF digits = "" THEN NaN
        ELSE IF neg THEN 0 - DigitsVal(digits, 0)
        ELSE DigitsVal(digits, 0)

\* parseInt(values[k]) || 0: leading white space is skipped, a sign is read,
\* then the decimal digits up to the first other character; no digit (or a
\* missing column) is NaN, and NaN || 0 is 0. (No value of the model starts
\* with 0x, which parseInt reads as hexadecimal.)
ParseIntOr0(values, k) ==
    LET s == IF k <= Len(values) THEN TrimStart(values[k]) ELSE ""
        neg == s # "" /\ CharAt(s, 1) = "-"
        signed == s # "" /\ CharAt(s, 1) \in {"-", "+"}
        digits == DigitPrefix(IF signed THEN SubSeq(s, 2, Len(s)) ELSE s)
    IN  IF digits = "" THEN 0
        ELSE IF neg THEN 0 - DigitsVal(digits, 0)
        ELSE DigitsVal(digits, 0)

\* if (values.length >= 5) records.push({...}); values are 0-based in the code.
RowRecords(values) ==
    IF Len(values) >= 5
    THEN <<[author |-> values[1],
            authorEmail |-> values[2],
            project |-> values[3],
            repository |-> values[4],
            closedDate |-> values[5],
            prId |-> ParseIntOr0(values, 6),
            title |-> IF Len(values) >= 7 THEN values[7] ELSE "",
            linesAdded |-> ParseIntOr0(values, 8),
            linesDeleted |-> ParseIntOr0(values, 9)]>>
    ELSE <<>>

\* for (let i = 1; i < lines.length; i++): the rows after the header line.
RECURSIVE RowsFrom(_, _)
RowsFrom(lines, i) ==
    IF i > Len(lines) THEN <<>>
    ELSE RowRecords(SplitValues(lines[i])) \o RowsFrom(lines, i + 1)

parseCSV(text) == RowsFrom(SplitLines(Trim(text)), 2)

-----------------------------------------------------------------------------
(* The codec round trip: records -> CSV generation -> parseCSV             *)

\* Longest title, and longest record list, the codec is run on.
MaxTitleLen == 2

MaxRecords == 2

\* Titles: free text that may hold the separator and the quote character.
TitleChars == {"a", ",", "\""}

RECURSIVE TitlesOfLen(_)
TitlesOfLen(n) ==
    IF n = 0 THEN {""}
    ELSE {t \o c : t \in TitlesOfLen(n - 1), c \in TitleChars}

Titles == UNION {TitlesOfLen(n) : n \in 0..MaxTitleLen}

\* The other fields hold no separator, quote or newline.
CodecRecordSet ==
    {[author |-> "Ann Lee", authorEmail |-> "ann@x", project |-> "Alpha",
      repository |-> "web", closedDate |-> "2024-03-15", prId |-> 10001,
      title |-> t, linesAdded |-> 130, linesDeleted |-> 0] : t \in Titles}
    \cup
    {[author |-> "Unknown", authorEmail |-> "", project |-> "Beta",
      repository |-> "lib", closedDate |-> "2025-01-10", prId |-> 0,
      title |-> t, linesAdded |-> 0, linesDeleted |-> 95] : t \in Titles}

RECURSIVE SeqsUpTo(_, _)
SeqsUpTo(S, n) ==
    IF n = 0 THEN {<<>>}
    ELSE LET shorter == SeqsUpTo(S, n - 1)
         IN  shorter \cup {Append(q, x) : q \in {r \in shorter : Len(r) = n - 1}, x \in S}

\* Rows of a pr-velocity.csv that was edited by hand, column by column: text
\* in numeric columns, missing columns, a row cut short.
ForeignRows ==
    { <<"Ann", "ann@x", "Alpha", "web", "2024-03-15", "abc", "\"t\"", "", "x9">>,
      <<"Bob", "bob@x", "Beta", "lib", "2024-03-16">>,
      <<"Cy", "cy@x", "Beta", "lib", "2024-03-17", "7", "\"u\"", "12", "3">>,
      <<"Dee", "dee@x", "Alpha">>,
      <<"Eve", "eve@x", "Alpha", "web", "2024-03-18", " 42", "\"v\"", "-", "1.5">>,
      <<"Fay", "fay@x", "Beta", "web", "2024-03-19", "n/a", "\"w\"", "40">> }

\* The columns of a row joined by the field separator.
RECURSIVE JoinColumns(_)
JoinColumns(cols) ==
    IF Len(cols) = 1 THEN cols[1]
    ELSE JoinColumns(SubSeq(cols, 1, Len(cols) - 1)) \o "," \o cols[Len(cols)]

\* The file with the header and the given rows.
FileOf(rows) == JoinLines(<<csvHeader>> \o [n \in DOMAIN rows |-> JoinColumns(rows[n])])

\* The codec starts from a record list to write, or from a file to read.
CodecInit ==
    \/ /\ codecPc = "input"
       /\ codecRecords \in SeqsUpTo(CodecRecordSet, MaxRecords)
       /\ codecText = ""
       /\ codecParsed = <<>>
    \/ /\ codecPc = "loaded"
       /\ codecRecords = <<>>
       /\ codecText \in {FileOf(rows) : rows \in SeqsUpTo(ForeignRows, MaxRecords)}
       /\ codecParsed = <<>>

\* The CSV generation of fetchPRData on the record list.
Encode ==
    /\ codecPc = "input"
    /\ codecText' = EncodeCSV(codecRecords)
    /\ codecPc' = "encoded"
    /\ UNCHANGED <<codecRecords, codecParsed, ingestVars, helperVars>>

\* loadData: parseCSV on the text.
Decode ==
    /\ codecPc = "encoded"
    /\ codecParsed' = parseCSV(codecText)
    /\ codecPc' = "decoded"
    /\ UNCHANGED <<codecRecords, codecText, ingestVars, helperVars>>

\* loadData: parseCSV on the text of a file that was not just generated.
Parse ==
    /\ codecPc = "loaded"
    /\ codecParsed' = parseCSV(codecText)
    /\ codecPc' = "parsed"
    /\ UNCHANGED <<codecRecords, codecText, ingestVars, helperVars>>

InitCodec == CodecInit /\ IngestIdle /\ HelpersIdle

NextCodec == Encode \/ Decode \/ Parse

SpecCodec == InitCodec /\ [][NextCodec]_vars

\* C1: decoding the text the CSV generation produced for a record list gives
\* back the record list, field by field.
C1_RoundTrip == codecPc = "decoded" => codecParsed = codecRecords

\* The same for titles without a quote character (the comma alone keeps the
\* round trip).
RoundTripWithoutQuotes ==
    (codecPc = "decoded"
       /\ \A n \in DOMAIN codecRecords :
             \A i \in 1..Len(codecRecords[n].title) :
                CharAt(codecRecords[n].title, i) # "\"")
    => codecParsed = codecRecords

\* The title holds the field separator.
HasComma(title) == \E i \in 1..Len(title) : CharAt(title, i) = ","

\* C24: a title that holds commas does not shift the columns: the decoded
\* row of every such record has the author, authorEmail, project,
\* repository, closedDate, prId, linesAdded and linesDeleted that were
\* encoded (no other field holds a comma, a quote or a newline).
C24_ColumnsStayAligned ==
    codecPc = "decoded" =>
        /\ Len(codecParsed) = Len(codecRecords)
        /\ \A n \in DOMAIN codecRecords : HasComma(codecRecords[n].title) =>
              /\ codecParsed[n].author = codecRecords[n].author
              /\ codecParsed[n].authorEmail = codecRecords[n].authorEmail
              /\ codecParsed[n].project = codecRecords[n].project
              /\ codecParsed[n].repository = codecRecords[n].repository
              /\ codecParsed[n].closedDate = codecRecords[n].closedDate
              /\ codecParsed[n].prId = codecRecords[n].prId
              /\ codecParsed[n].linesAdded = codecRecords[n].linesAdded
              /\ codecParsed[n].linesDeleted = codecRecords[n].linesDeleted

\* Two records were decoded, the first with a title of two commas, the
\* second with a comma after a quote; both kept their last column.
C24_Witness ==
    /\ codecPc = "decoded" /\ Len(codecRecords) = 2
    /\ codecRecords[1].title = ",," /\ codecRecords[2].title = "\","
    /\ codecParsed[1].title = ",,"
    /\ codecParsed[1].linesAdded = codecRecords[1].linesAdded
    /\ codecParsed[2].linesDeleted = codecRecords[2].linesDeleted

\* No integer can be read from the text: after leading white space it does
\* not start with a digit, or with a sign and a digit.
Unparsable(s) ==
    LET t == TrimStart(s)
    IN  \/ t = ""
        \/ /\ ~IsDigit(CharAt(t, 1))
           /\ ~(CharAt(t, 1) \in {"-", "+"} /\ Len(t) >= 2 /\ IsDigit(CharAt(t, 2)))

\* The numeric columns, 1-based, and the fields they decode to.
NumericColumns == {<<6, "prId">>, <<8, "linesAdded">>, <<9, "linesDeleted">>}

\* C25: a numeric column (prId, linesAdded, linesDeleted) whose text cannot
\* be read as an integer, or that the row does not have, decodes to 0; the
\* row is emitted all the same, and the rows of the file decode one by one,
\* in order, each to its own columns (a column of digits to its value).
C25_NumericDefaultsToZero ==
    codecPc = "parsed" =>
        \A rows \in SeqsUpTo(ForeignRows, MaxRecords) : codecText = FileOf(rows) =>
            LET kept == SelectSeq(rows, LAMBDA r : Len(r) >= 5)
            IN  /\ Len(codecParsed) = Len(kept)
                /\ \A n \in DOMAIN kept :
                      /\ codecParsed[n].author = kept[n][1]
                      /\ codecParsed[n].closedDate = kept[n][5]
                      /\ \A c \in NumericColumns :
                            /\ (c[1] > Len(kept[n]) \/ Unparsable(kept[n][c[1]]))
                                  => codecParsed[n][c[2]] = 0
                            /\ (c[1] <= Len(kept[n]) /\ AllDigits(kept[n][c[1]]))
                                  => codecParsed[n][c[2]] = DigitsVal(kept[n][c[1]], 0)

\* The rows of Ann (prId abc, linesAdded empty, linesDeleted x9) and Cy were
\* parsed: Ann's numbers are 0, Cy's are 7, 12 and 3.
C25_Witness ==
    /\ codecPc = "parsed" /\ Len(codecParsed) = 2
    /\ codecParsed[1].author = "Ann" /\ codecParsed[1].prId = 0
    /\ codecParsed[1].linesAdded = 0 /\ codecParsed[1].linesDeleted = 0
    /\ codecParsed[2].author = "Cy" /\ codecParsed[2].prId = 7
    /\ codecParsed[2].linesAdded = 12 /\ codecParsed[2].linesDeleted = 3

-----------------------------------------------------------------------------
(* Objects, Sets and sorts of the aggregation helpers                      *)

\* An object is a function from its own keys to their values.
Put(o, k, v) == [x \in DOMAIN o \cup {k} |-> IF x = k THEN v ELSE o[x]]

\* o[k] || 0
GetOr0(o, k) == IF k \in DOMAIN o THEN o[k] ELSE 0

\* Set.prototype.add on a Set kept in insertion order.
SetAdd(s, x) == IF \E i \in DOMAIN s : s[i] = x THEN s ELSE Append(s, x)

\* Object.keys(o).sort(): the keys in ascending code-unit order (rank is
\* bound by a set so that it is evaluated once).
SortedKeys(o) ==
    CHOOSE sorted \in
        { [k \in 1..Cardinality(DOMAIN o) |-> CHOOSE s \in DOMAIN o : rank[s] = k - 1] :
            rank \in {[s \in DOMAIN o |-> Cardinality({e \in DOMAIN o : StrLess(e, s)})]} } :
        TRUE

\* Variant: a sort that is not stable, equal weights come out reversed.
RECURSIVE SortByWeightUnstable(_, _)
SortByWeightUnstable(list, weight) ==
    IF list = <<>> THEN <<>>
    ELSE LET n == Len(list)
             init == SortByWeightUnstable(SubSeq(list, 1, n - 1), weight)
             x == list[n]
             k == Cardinality({i \in 1..Len(init) : weight[init[i]] > weight[x]})
         IN  SubSeq(init, 1, k) \o <<x>> \o SubSeq(init, k + 1, Len(init))

\* Array.prototype.sort with (a, b) => weight[b] - weight[a]: a stable sort,
\* heaviest first.
RECURSIVE SortByWeight(_, _)
SortByWeight(list, weight) ==
    IF list = <<>> THEN <<>>
    ELSE LET n == Len(list)
             init == SortByWeight(SubSeq(list, 1, n - 1), weight)
             x == list[n]
             k == Cardinality({i \in 1..Len(init) : weight[init[i]] >= weight[x]})
         IN  SubSeq(init, 1, k) \o <<x>> \o SubSeq(init, k + 1, Len(init))

-----------------------------------------------------------------------------
(* Local time: Date.prototype.getDate / setDate                            *)

\* The zones the dashboard is opened in.
TimeZones == {"UTC", "Europe/Copenhagen"}

\* Offset of standard time from UTC, in hours.
StandardOffset == [z \in TimeZones |-> IF z = "Europe/Copenhagen" THEN 1 ELSE 0]

\* The periods <<from, to>> (instants) in which the zone's clocks are one hour
\* ahead of its standard time: last Sunday of March to last Sunday of
\* October, 01:00Z, in Europe/Copenhagen.
SummerTime ==
    [z \in TimeZones |->
        IF z = "Europe/Copenhagen"
        THEN { <<DateParse("2024-03-31T01:00:00Z"), DateParse("2024-10-27T01:00:00Z")>>,
               <<DateParse("2025-03-30T01:00:00Z"), DateParse("2025-10-26T01:00:00Z")>> }
        ELSE {}]

\* LocalTZA(t, true): the offset of local time at the instant t.
LocalTZA(z, t) ==
    StandardOffset[z] + (IF \E s \in SummerTime[z] : s[1] <= t /\ t < s[2] THEN 1 ELSE 0)

\* LocalTime(t)
LocalTime(z, t) == t + LocalTZA(z, t)

\* UTC(local): the instant at which the zone's clocks read local; the earlier
\* one where the clocks read it twice, the offset before the transition where
\* they skip it.
UTC(z, local) ==
    LET instants == {u \in {local - StandardOffset[z] - 1, local - StandardOffset[z]} :
                        LocalTime(z, u) = local}
    IN  IF instants = {} THEN local - StandardOffset[z]
        ELSE CHOOSE u \in instants : \A v \in instants : u <= v

\* d.setDate(d.getDate() + 1): the next day of the LOCAL calendar at the same
\* local time of day.
SetDateNext(z, t) ==
    LET local == LocalTime(z, t)
    IN  UTC(z, ((local \div 24) + 1) * 24 + (local % 24))

-----------------------------------------------------------------------------
(* processData, processImpactData                                          *)

\* One pass of the gap-filling loop from the loop variable st.d: the body and
\* the increment if the condition d <= endDate holds, nothing once it failed.
\* st.at collects the values of d the body ran with.
FillStep(z, st, endDate) ==
    IF st.d # NaN /\ endDate # NaN /\ st.d <= endDate
    THEN [d |-> SetDateNext(z, st.d), at |-> st.at \cup {st.d}]
    ELSE st

\* n passes of the loop.
RECURSIVE FillLoop(_, _, _, _)
FillLoop(z, st, n, endDate) ==
    IF n = 0 THEN st
    ELSE IF n = 1 THEN FillStep(z, st, endDate)
    ELSE CHOOSE last \in {FillLoop(z, half, n - (n \div 2), endDate) :
                             half \in {FillLoop(z, st, n \div 2, endDate)}} : TRUE

\* "Fill in missing days with zeros for continuous data": byDay after the
\* loop, whose body gives dayStr = d.toISOString().split('T')[0] the empty
\* entry unless byDay has the key.  Every pass moves d at least 23 hours on,
\* so the loop has ended after (endDate - startDate) / 23 + 1 passes.
FillGaps(z, byDay, empty) ==
    LET days == SortedKeys(byDay)
        startDate == DateParse(days[1])
        endDate == DateParse(days[Len(days)])
        passes == IF startDate = NaN \/ endDate = NaN \/ endDate < startDate THEN 0
                  ELSE (endDate - startDate) \div 23 + 1
        at == FillLoop(z, [d |-> startDate, at |-> {}], passes, endDate).at
    IN  IF Len(days) > 1
        THEN [day \in DOMAIN byDay \cup {ToISODate(d) : d \in at} |->
                 IF day \in DOMAIN byDay THEN byDay[day] ELSE empty]
        ELSE byDay

\* processData: the body of the loop over the records.
CountRecord(acc, r) ==
    LET day == r.closedDate
        b0 == IF day \in DOMAIN acc.byDay THEN acc.byDay[day] ELSE [total |-> 0]
        b1 == IF GetOr0(b0, r.author) = 0 THEN Put(b0, r.author, 0) ELSE b0
        b2 == Put(b1, r.author, b1[r.author] + 1)
        b3 == Put(b2, "total", b2["total"] + 1)
    IN  [byDay |-> Put(acc.byDay, day, b3),
         byAuthor |-> Put(acc.byAuthor, r.author, GetOr0(acc.byAuthor, r.author) + 1),
         byProject |-> Put(acc.byProject, r.project, GetOr0(acc.byProject, r.project) + 1),
         authors |-> SetAdd(acc.authors, r.author)]

RECURSIVE CountRecords(_, _)
CountRecords(acc, records) ==
    IF records = <<>> THEN acc
    ELSE CountRecords(CountRecord(acc, Head(records)), Tail(records))

processData(z, records) ==
    LET acc == CountRecords([byDay |-> <<>>, byAuthor |-> <<>>, byProject |-> <<>>,
                             authors |-> <<>>], records)
        byDay == FillGaps(z, acc.byDay, [total |-> 0])
    IN  [byDay |-> byDay,
         byAuthor |-> acc.byAuthor,
         byProject |-> acc.byProject,
         days |-> SortedKeys(byDay),
         authorList |-> SortByWeight(acc.authors, acc.byAuthor),
         totalPRs |-> Len(records)]

\* { added, deleted } with the record's lines added to it.
AddLines(o, r) ==
    [added |-> o.added + r.linesAdded, deleted |-> o.deleted + r.linesDeleted]

NoLines == [added |-> 0, deleted |-> 0]

\* processImpactData: the body of the loop over the records (for authors not
\* named totalAdded or totalDeleted).
SumRecord(acc, r) ==
    LET day == r.closedDate
        b0 == IF day \in DOMAIN acc.byDay THEN acc.byDay[day]
              ELSE [totalAdded |-> 0, totalDeleted |-> 0]
        b1 == IF r.author \in DOMAIN b0 THEN b0 ELSE Put(b0, r.author, NoLines)
        b2 == Put(b1, r.author, AddLines(b1[r.author], r))
        b3 == Put(b2, "totalAdded", b2["totalAdded"] + r.linesAdded)
        b4 == Put(b3, "totalDeleted", b3["totalDeleted"] + r.linesDeleted)
        a0 == IF r.author \in DOMAIN acc.byAuthor THEN acc.byAuthor[r.author] ELSE NoLines
        p0 == IF r.project \in DOMAIN acc.byProject THEN acc.byProject[r.project] ELSE NoLines
    IN  [byDay |-> Put(acc.byDay, day, b4),
         byAuthor |-> Put(acc.byAuthor, r.author, AddLines(a0, r)),
         byProject |-> Put(acc.byProject, r.project, AddLines(p0, r)),
         authors |-> SetAdd(acc.authors, r.author)]

RECURSIVE SumRecords(_, _)
SumRecords(acc, records) ==
    IF records = <<>> THEN acc
    ELSE SumRecords(SumRecord(acc, Head(records)), Tail(records))

\* Object.values(o).reduce((sum, a) => sum + a[field], 0)
RECURSIVE SumValues(_, _, _)
SumValues(o, keys, field) ==
    IF keys = {} THEN 0
    ELSE LET k == CHOOSE x \in keys : TRUE
         IN  o[k][field] + SumValues(o, keys \ {k}, field)

processImpactData(z, records) ==
    LET acc == SumRecords([byDay |-> <<>>, byAuthor |-> <<>>, byProject |-> <<>>,
                           authors |-> <<>>], records)
        byDay == FillGaps(z, acc.byDay, [totalAdded |-> 0, totalDeleted |-> 0])
        weight == [a \in DOMAIN acc.byAuthor |->
                      acc.byAuthor[a].added + acc.byAuthor[a].deleted]
    IN  [byDay |-> byDay,
         byAuthor |-> acc.byAuthor,
         byProject |-> acc.byProject,
         days |-> SortedKeys(byDay),
         authorList |-> SortByWeight(acc.authors, weight),
         totalLinesAdded |-> SumValues(acc.byAuthor, DOMAIN acc.byAuthor, "added"),
         totalLinesDeleted |-> SumValues(acc.byAuthor, DOMAIN acc.byAuthor, "deleted")]

-----------------------------------------------------------------------------
(* The aggregation of a record list, in a browser of some time zone       *)

\* Length of the record lists enumerated in full.
MaxAggRecords == 2

AggRecord(author, day) ==
    [author |-> author, authorEmail |-> "", project |-> IF author = "bob" THEN "Beta" ELSE "Alpha",
     repository |-> "web", closedDate |-> day, prId |-> 1, title |-> "t",
     linesAdded |-> IF author = "bob" THEN 0 ELSE 130,
     linesDeleted |-> IF author = "bob" THEN 95 ELSE 15]

\* Records of neighbouring days in October ...
AggRecordSet ==
    {AggRecord(a, d) : a \in {"alice", "bob"},
                       d \in {"2024-10-25", "2024-10-26", "2024-10-29"}}

\* ... and lists that span a spring and an autumn.
LongLists ==
    { <<AggRecord("alice", "2024-03-30"), AggRecord("bob", "2024-10-28")>>,
      <<AggRecord("bob", "2024-10-28"), AggRecord("alice", "2024-10-27"),
        AggRecord("alice", "2024-03-30")>> }

\* Lists of three authors, two of them with equal contributions.
TiedLists ==
    { <<AggRecord("carol", "2024-10-25"), AggRecord("bob", "2024-10-25"),
        AggRecord("alice", "2024-10-25"), AggRecord("bob", "2024-10-26")>>,
      <<AggRecord("bob", "2024-10-25"), AggRecord("alice", "2024-10-25"),
        AggRecord("carol", "2024-10-26"), AggRecord("alice", "2024-10-26"),
        AggRecord("carol", "2024-10-25")>> }

\* Lists with an author whose display name is total.
NamedLists ==
    { <<AggRecord("total", "2024-10-25")>>,
      <<AggRecord("alice", "2024-10-25"), AggRecord("total", "2024-10-25"),
        AggRecord("total", "2024-10-26")>> }

AggInit ==
    /\ aggPc = "input"
    /\ tz \in TimeZones
    /\ aggRecords \in SeqsUpTo(AggRecordSet, MaxAggRecords) \cup LongLists \cup TiedLists
                        \cup NamedLists
    /\ aggData = <<>>
    /\ aggImpact = <<>>

\* Dashboard: const data = processData(filteredRecords)
ProcessData ==
    /\ aggPc = "input"
    /\ aggData' = processData(tz, aggRecords)
    /\ aggPc' = "velocity"
    /\ UNCHANGED <<tz, aggRecords, aggImpact, ingestVars, codecVars, dashVars, maVars, outVars, statVars>>

\* Dashboard: const impactData = processImpactData(...)
ProcessImpactData ==
    /\ aggPc = "velocity"
    /\ aggImpact' = processImpactData(tz, aggRecords)
    /\ aggPc' = "impact"
    /\ UNCHANGED <<tz, aggRecords, aggData, ingestVars, codecVars, dashVars, maVars, outVars, statVars>>

InitAggregate ==
    AggInit /\ IngestIdle /\ CodecIdle /\ AverageIdle /\ OutliersIdle /\ StatsIdle /\ DashIdle

NextAggregate == ProcessData \/ ProcessImpactData

SpecAggregate == InitAggregate /\ [][NextAggregate]_vars

\* The calendar dates from the earliest to the latest closedDate of the
\* records, in order.
CalendarAxis(records) ==
    LET observed == {DateParse(records[i].closedDate) : i \in DOMAIN records}
        first == CHOOSE t \in observed : \A u \in observed : t <= u
        last == CHOOSE t \in observed : \A u \in observed : u <= t
    IN  IF records = <<>> THEN <<>>
        ELSE CHOOSE axis \in
                 { [k \in 1..((span[2] - span[1]) \div 24 + 1) |->
                       ToISODate(span[1] + 24 * (k - 1))] : span \in {<<first, last>>} } :
                 TRUE

HasRecord(records, day) == \E i \in DOMAIN records : records[i].closedDate = day

\* C7: the day axis of processData and of processImpactData is the calendar
\* from the earliest to the latest observed closedDate, every date once and
\* in ascending order, and a date without a record has total 0 (totalAdded =
\* totalDeleted = 0 in impact mode) and no per-author entry.
C7_GapFillTotality ==
    /\ aggPc \in {"velocity", "impact"} =>
          /\ aggData.days = CalendarAxis(aggRecords)
          /\ \A day \in DOMAIN aggData.byDay :
                ~HasRecord(aggRecords, day) => aggData.byDay[day] = [total |-> 0]
    /\ aggPc = "impact" =>
          /\ aggImpact.days = CalendarAxis(aggRecords)
          /\ \A day \in DOMAIN aggImpact.byDay :
                ~HasRecord(aggRecords, day) =>
                    aggImpact.byDay[day] = [totalAdded |-> 0, totalDeleted |-> 0]

\* The same where local time is UTC.
GapFillTotalityInUTC == tz = "UTC" => C7_GapFillTotality

-----------------------------------------------------------------------------
(* calculateMovingAverage                                                  *)

(* A number of a series is the pair <<numerator, denominator>> of a        *)
(* fraction in lowest terms with a positive denominator.  The code's       *)
(* sum / count is the double nearest to the fraction; rounding to nearest  *)
(* keeps the order of two fractions and is exact on the integers.          *)

RECURSIVE GCD(_, _)
GCD(a, b) == IF b = 0 THEN a ELSE GCD(b, a % b)

Abs(a) == IF a < 0 THEN 0 - a ELSE a

\* num / den (den > 0) in lowest terms
Fraction(num, den) ==
    LET g == GCD(Abs(num), den)
    IN  <<num \div g, den \div g>>

Number(v) == <<v, 1>>

Plus(x, y) == Fraction(x[1] * y[2] + y[1] * x[2], x[2] * y[2])

\* x / count for an integer count > 0
Over(x, count) == Fraction(x[1], x[2] * count)

\* The inner loop at position i (from 0): the indices j of i - halfWindow ..
\* i + halfWindow that pass the test j >= 0 && j < data.length (the elements of
\* a number[] are never null or undefined).
WindowIndices(data, i, halfWindow) ==
    {j \in (i - halfWindow)..(i + halfWindow) : j >= 0 /\ j < Len(data)}

\* sum after the inner loop has added the elements at the indices, in
\* ascending order.
RECURSIVE WindowSum(_, _, _)
WindowSum(data, indices, sum) ==
    IF indices = {} THEN sum
    ELSE LET j == CHOOSE x \in indices : \A y \in indices : x <= y
         IN  WindowSum(data, indices \ {j}, Plus(sum, data[j + 1]))

\* Variant: the sum is divided by the full width, as if padded with zeros.
WindowMeanPadded(data, i, halfWindow) ==
    LET indices == WindowIndices(data, i, halfWindow)
        count == Cardinality(indices)
    IN  IF count > 0 THEN Over(WindowSum(data, indices, Number(0)), 2 * halfWindow + 1)
        ELSE Number(0)

\* The element pushed for position i.
WindowMean(data, i, halfWindow) ==
    LET indices == WindowIndices(data, i, halfWindow)
        count == Cardinality(indices)
    IN  IF count > 0 THEN Over(WindowSum(data, indices, Number(0)), count)
        ELSE Number(0)

\* calculateMovingAverage without its first line.
calculateMovingAverageAlways(data, windowSize) ==
    [i \in 1..Len(data) |-> WindowMean(data, i - 1, windowSize \div 2)]

calculateMovingAverage(data, windowSize) ==
    IF windowSize <= 1 THEN data
    ELSE [i \in 1..Len(data) |-> WindowMean(data, i - 1, windowSize \div 2)]

\* Length of the series.
MaxSeriesLen == 4

\* Daily values of a series.
SeriesValues == {Number(0), Number(1), Number(4)}

\* Window sizes, the preset of 14 days among them.
Windows == {-3, -1, 0, 1, 2, 3, 5, 14}

\* Fifteen days, long enough for an interior day under the preset of 14.
FortnightSeries == {[i \in 1..15 |-> Number(IF i = k THEN 15 ELSE 0)] : k \in {1, 8}}

AverageInit ==
    /\ maPc = "input"
    /\ maData \in SeqsUpTo(SeriesValues, MaxSeriesLen) \cup FortnightSeries
    /\ maWindow \in Windows
    /\ maResult = <<>>

\* VelocityChart: calculateMovingAverage(teamData, smoothingWindow)
Smooth ==
    /\ maPc = "input"
    /\ maResult' = calculateMovingAverage(maData, maWindow)
    /\ maPc' = "done"
    /\ UNCHANGED <<maData, maWindow, ingestVars, codecVars, dashVars, aggVars, outVars, statVars>>

InitAverage ==
    AverageInit /\ IngestIdle /\ CodecIdle /\ AggIdle /\ OutliersIdle /\ StatsIdle /\ DashIdle

NextAverage == Smooth

SpecAverage == InitAverage /\ [][NextAverage]_vars

\* C8: for a window size of at most 1 (1, 0, negative) the result of
\* calculateMovingAverage is the series itself, same length, same elements.
C8_IdentityUpToOne ==
    (maPc = "done" /\ maWindow <= 1) =>
        /\ Len(maResult) = Len(maData)
        /\ \A i \in 1..Len(maData) : maResult[i] = maData[i]

\* A series with a non-zero element came back unchanged under a negative
\* window size.
C8_Witness ==
    /\ maPc = "done" /\ maWindow < 0
    /\ Len(maData) = 3 /\ maData[2] # Number(0)
    /\ maResult = maData

\* The sum of the elements of the series at the indices lo..hi (from 0).
RECURSIVE SumRange(_, _)
SumRange(lo, hi) ==
    IF hi < lo THEN 0 ELSE SumRange(lo, hi - 1) + maData[hi + 1][1]

\* C18: for a window size w > 1 and h = floor(w / 2), the result has the
\* length of the series and its element i is the arithmetic mean of the
\* elements at the indices max(0, i - h) .. min(n - 1, i + h): at the edges
\* fewer points are averaged, none from the other end and no zeros.
C18_ShrinkingWindowMean ==
    (maPc = "done" /\ maWindow > 1) =>
        LET n == Len(maData)
            h == maWindow \div 2
        IN  /\ Len(maResult) = n
            /\ \A i \in 0..(n - 1) :
                  LET lo == Max(0, i - h)
                      hi == Min(n - 1, i + h)
                  IN  maResult[i + 1] = Fraction(SumRange(lo, hi), hi - lo + 1)

\* Under a window of 3 the first element of 4, 0, 1, 1 is the mean of two
\* points and the second the mean of three.
C18_Witness ==
    /\ maPc = "done" /\ maWindow = 3
    /\ maData = <<Number(4), Number(0), Number(1), Number(1)>>
    /\ maResult[1] = Number(2) /\ maResult[2] = <<5, 3>>

\* C19: for every window size w > 1, odd or even, and every interior index
\* i (h <= i <= n - 1 - h, h = floor(w / 2)) the result is the mean of a
\* window of exactly w points around i: w consecutive elements within
\* i - h .. i + h.
C19_InteriorWindowWidth ==
    (maPc = "done" /\ maWindow > 1) =>
        LET n == Len(maData)
            h == maWindow \div 2
        IN  \A i \in h..(n - 1 - h) :
                \E lo \in (i - h)..(i + h - maWindow + 1) :
                    maResult[i + 1] = Fraction(SumRange(lo, lo + maWindow - 1), maWindow)

\* The same for the odd window sizes only.
OddWindowWidth == maWindow % 2 = 1 => C19_InteriorWindowWidth

-----------------------------------------------------------------------------
(* Arithmetic of the Number type (IEEE 754 binary64) on small operands     *)

(* A positive double is [m, e]: m its 53 significand bits, most            *)
(* significant first (m[1] = 1), e the exponent of m[1]; its value is the   *)
(* sum of m[i] * 2^(e - i + 1).  Results are rounded to nearest, ties to    *)
(* even.  The integer operands are below 4096.                              *)

\* Significand bits of a double.
Precision == 53

\* 2^k
RECURSIVE Pow2(_)
Pow2(k) ==
    IF k = 0 THEN 1
    ELSE IF k = 1 THEN 2
    ELSE Pow2(k \div 2) * Pow2(k - (k \div 2))

\* 2^k modulo m, m below 2^15
RECURSIVE PowMod2(_, _)
PowMod2(k, m) ==
    IF k = 0 THEN 1 % m
    ELSE IF k = 1 THEN 2 % m
    ELSE (PowMod2(k \div 2, m) * PowMod2(k - (k \div 2), m)) % m

\* floor(log2(a / b)) for integers a, b > 0
Exponent(a, b) ==
    IF a >= b THEN CHOOSE e \in 0..12 : b * Pow2(e) <= a /\ a < b * Pow2(e + 1)
    ELSE 0 - (CHOOSE k \in 1..12 : b <= a * Pow2(k) /\ a * Pow2(k - 1) < b)

\* Long division of r by b, r / b in [0, 2): what is left of r after k bits
\* of the quotient (each bit doubles the rest, less 2b if the bit is 1).
QuotientRest(r, b, k) == (r * PowMod2(k, 2 * b)) % (2 * b)

\* The first k bits of r / b, the bit of weight 1 first.
QuotientBits(r, b, k) ==
    [i \in 1..k |-> IF QuotientRest(r, b, i - 1) >= b THEN 1 ELSE 0]

\* bits + 1
Increment(bits) ==
    IF \A i \in DOMAIN bits : bits[i] = 1
    THEN [i \in 1..(Len(bits) + 1) |-> IF i = 1 THEN 1 ELSE 0]
    ELSE LET z == CHOOSE i \in DOMAIN bits :
                      bits[i] = 0 /\ \A j \in (i + 1)..Len(bits) : bits[j] = 1
         IN  [i \in DOMAIN bits |-> IF i < z THEN bits[i] ELSE IF i = z THEN 1 ELSE 0]

\* The double nearest to the number whose bits from exponent e down are bits
\* (bits[1] = 1, at least 53 of them), followed by something non-zero iff
\* sticky.
Round(bits, sticky, e) ==
    LET kept == SubSeq(bits, 1, Precision)
        guard == IF Len(bits) > Precision THEN bits[Precision + 1] ELSE 0
        rest == sticky \/ \E i \in (Precision + 2)..Len(bits) : bits[i] = 1
        up == guard = 1 /\ (rest \/ kept[Precision] = 1)
        next == Increment(kept)
    IN  IF ~up THEN [m |-> kept, e |-> e]
        ELSE IF Len(next) > Precision THEN [m |-> SubSeq(next, 1, Precision), e |-> e + 1]
        ELSE [m |-> next, e |-> e]

\* a / b for integers a, b > 0
Divide(a, b) ==
    LET e == Exponent(a, b)
        r == IF e < 0 THEN a * Pow2(0 - e) ELSE a
        d == IF e < 0 THEN b ELSE b * Pow2(e)
    IN  Round(QuotientBits(r, d, Precision + 1),
              QuotientRest(r, d, Precision + 1) # 0, e)

\* The integer whose binary digits are bits[lo..hi].
RECURSIVE BitsValue(_, _, _)
BitsValue(bits, lo, hi) ==
    IF lo > hi THEN 0
    ELSE IF lo = hi THEN bits[lo]
    ELSE BitsValue(bits, lo, (lo + hi) \div 2) * Pow2(hi - ((lo + hi) \div 2))
         + BitsValue(bits, (lo + hi) \div 2 + 1, hi)

\* The width binary digits of the integer c, c < 2^width.
BinaryOf(c, width) == [i \in 1..width |-> (c \div Pow2(width - i)) % 2]

\* Number of binary digits of the integer c, 0 < c < 2^30.
BitLength(c) == CHOOSE w \in 1..30 : Pow2(w - 1) <= c /\ (w = 30 \/ c < Pow2(w))

\* The significand is multiplied in three parts of 17, 18 and 18 bits.
PartBits == 18

\* The binary digits of n * bits for 53 bits and an integer n > 0.
TimesBits(bits, n) ==
    LET low == n * BitsValue(bits, Precision - PartBits + 1, Precision)
        mid == n * BitsValue(bits, Precision - 2 * PartBits + 1, Precision - PartBits)
                + low \div Pow2(PartBits)
        high == n * BitsValue(bits, 1, Precision - 2 * PartBits) + mid \div Pow2(PartBits)
    IN  BinaryOf(high, BitLength(high))
          \o BinaryOf(mid % Pow2(PartBits), PartBits)
          \o BinaryOf(low % Pow2(PartBits), PartBits)

\* n * x for an integer n > 0 and a double x
Times(n, x) ==
    LET product == TimesBits(x.m, n)
    IN  Round(product, FALSE, x.e + (Len(product) - Precision))

\* Math.floor(x) for a double x below 2^30
Floor(x) == IF x.e < 0 THEN 0 ELSE BitsValue(x.m, 1, x.e + 1)

-----------------------------------------------------------------------------
(* removeOutliers                                                          *)

TotalLines(r) == r.linesAdded + r.linesDeleted

\* [...recordsWithTotal].sort((a, b) => a.totalLines - b.totalLines): a stable
\* sort; the element at position i goes behind the smaller ones and the equal
\* ones before it.
SortByTotalLines(records) ==
    CHOOSE sorted \in
        { [k \in DOMAIN records |-> records[CHOOSE i \in DOMAIN records : place[i] = k]] :
            place \in {[i \in DOMAIN records |->
                          Cardinality({j \in DOMAIN records :
                              \/ TotalLines(records[j]) < TotalLines(records[i])
                              \/ TotalLines(records[j]) = TotalLines(records[i]) /\ j <= i})]} } :
        TRUE

\* Math.floor(sorted.length * (percentile / 100)) for percentile in 0..100
PercentileIndex(length, percentile) ==
    IF percentile = 0 THEN 0 ELSE Floor(Times(length, Divide(percentile, 100)))

removeOutliers(records, percentile) ==
    IF Len(records) = 0 THEN records
    ELSE LET sorted == SortByTotalLines(records)
             percentileIndex == PercentileIndex(Len(sorted), percentile)
             threshold == TotalLines(sorted[Min(percentileIndex, Len(sorted) - 1) + 1])
         IN  SelectSeq(records, LAMBDA r : TotalLines(r) <= threshold)

\* Length of the record lists enumerated in full.
MaxOutRecords == 3

OutRecord(id, added, deleted) ==
    [author |-> "alice", authorEmail |-> "", project |-> "Alpha", repository |-> "web",
     closedDate |-> "2024-10-25", prId |-> id, title |-> "t",
     linesAdded |-> added, linesDeleted |-> deleted]

\* Totals 1, 5, 5 and 900.
OutRecordSet ==
    {OutRecord(1, 1, 0), OutRecord(2, 5, 0), OutRecord(3, 2, 3), OutRecord(4, 500, 400)}

\* 100 records whose totals are 1..100, in some order.
HundredRecords ==
    [i \in 1..100 |-> OutRecord(i, ((i * 37) % 100) + 1 - (i % 3), i % 3)]

Percentiles == {0, 50, 57, 99, 100}

OutliersInit ==
    /\ outPc = "input"
    /\ outRecords \in SeqsUpTo(OutRecordSet, MaxOutRecords) \cup {HundredRecords}
    /\ outPercentile \in Percentiles
    /\ outResult = <<>>

\* Dashboard: removeOutliers(filteredRecords, 99)
RemoveOutliers ==
    /\ outPc = "input"
    /\ outResult' = removeOutliers(outRecords, outPercentile)
    /\ outPc' = "done"
    /\ UNCHANGED <<outRecords, outPercentile, ingestVars, codecVars, dashVars, aggVars, maVars, statVars>>

InitOutliers ==
    OutliersInit /\ IngestIdle /\ CodecIdle /\ AggIdle /\ AverageIdle /\ StatsIdle /\ DashIdle

NextOutliers == RemoveOutliers

SpecOutliers == InitOutliers /\ [][NextOutliers]_vars

\* The value at index k (from 0) of the totals of the records sorted
\* ascending.
TotalAtIndex(records, k) ==
    CHOOSE v \in {TotalLines(records[i]) : i \in DOMAIN records} :
        /\ Cardinality({i \in DOMAIN records : TotalLines(records[i]) < v}) <= k
        /\ k < Cardinality({i \in DOMAIN records : TotalLines(records[i]) <= v})

\* The records of the list with a total of at most the value at index
\* min(index, n - 1), in their order.
UpToIndex(records, index) ==
    IF records = <<>> THEN <<>>
    ELSE CHOOSE kept \in
             { SelectSeq(records, LAMBDA r : TotalLines(r) <= threshold) :
                 threshold \in {TotalAtIndex(records, Min(index, Len(records) - 1))} } :
             TRUE

\* C9: removeOutliers(records, p) is the records whose total is at most the
\* value at index min(floor(n * p / 100), n - 1) of the ascending totals, in
\* their order (ties with the threshold kept); with totals 1..100 and p = 99
\* nothing is removed.
C9_ThresholdAtPercentileIndex ==
    outPc = "done" =>
        /\ outResult = UpToIndex(outRecords, (Len(outRecords) * outPercentile) \div 100)
        /\ (outRecords = HundredRecords /\ outPercentile = 99) => outResult = outRecords

\* The same with the index the code computes in floating point.
ThresholdAtComputedIndex ==
    outPc = "done" =>
        outResult = UpToIndex(outRecords, PercentileIndex(Len(outRecords), outPercentile))

\* The same at the dashboard's percentile.
ThresholdAtIndexFor99 == outPercentile = 99 => C9_ThresholdAtPercentileIndex

-----------------------------------------------------------------------------
(* getStats, getImpactStats                                                *)

\* author ? records.filter(r => r.author === author) : records
FilterByAuthor(records, author) ==
    IF author # "" THEN SelectSeq(records, LAMBDA r : r.author = author) ELSE records

\* new Date(dates[0]) and new Date(dates[dates.length - 1]) of the sorted
\* closedDates: <<firstDate, lastDate>>; of an empty list both are new
\* Date(undefined), an Invalid Date.
FirstAndLast(filtered) ==
    LET dates == {filtered[i].closedDate : i \in DOMAIN filtered}
    IN  IF filtered = <<>> THEN <<NaN, NaN>>
        ELSE <<DateParse(CHOOSE d \in dates : \A e \in dates : ~StrLess(e, d)),
               DateParse(CHOOSE d \in dates : \A e \in dates : ~StrLess(d, e))>>

\* Math.ceil(a / b) for integers a and b > 0
CeilDiv(a, b) == 0 - ((0 - a) \div b)

\* Variant: Math.floor in the place of Math.ceil.
WeekSpanRoundedDown(filtered) ==
    LET dates == FirstAndLast(filtered)
    IN  IF dates[1] = NaN \/ dates[2] = NaN THEN NaN
        ELSE Max(1, (dates[2] - dates[1]) \div (7 * 24))

\* Math.max(1, Math.ceil((lastDate - firstDate) / one week)), NaN if a date
\* is invalid.
WeekSpan(filtered) ==
    LET dates == FirstAndLast(filtered)
    IN  IF dates[1] = NaN \/ dates[2] = NaN THEN NaN
        ELSE Max(1, CeilDiv(dates[2] - dates[1], 7 * 24))

\* Whether the double a / b (integers a, b > 0) is below (-1), at (0) or above
\* (1) the quotient it stands for.
RoundingDirection(a, b) ==
    LET e == Exponent(a, b)
        r == IF e < 0 THEN a * Pow2(0 - e) ELSE a
        d == IF e < 0 THEN b ELSE b * Pow2(e)
        bits == QuotientBits(r, d, Precision + 1)
        sticky == QuotientRest(r, d, Precision + 1) # 0
    IN  IF bits[Precision + 1] = 0 /\ ~sticky THEN 0
        ELSE IF bits[Precision + 1] = 1 /\ (sticky \/ bits[Precision] = 1) THEN 1
        ELSE 0 - 1

RECURSIVE Pow10(_)
Pow10(k) == IF k = 0 THEN 1 ELSE 10 * Pow10(k - 1)

\* The digits of n, at least width of them.
RECURSIVE PadDigits(_, _)
PadDigits(n, width) ==
    IF width <= 1 /\ n < 10 THEN CharAt(Digits, n + 1)
    ELSE PadDigits(n \div 10, width - 1) \o CharAt(Digits, (n % 10) + 1)

\* (num / den).toFixed(digits), den > 0 or NaN: the integer n with n / 10^digits
\* nearest to the double |num / den|, the larger one if two are as near.
ToFixed(num, den, digits) ==
    LET a == Abs(num)
        twice == 2 * Pow10(digits) * a + den
        n == IF twice % (2 * den) = 0 /\ a > 0 /\ RoundingDirection(a, den) < 0
             THEN twice \div (2 * den) - 1
             ELSE twice \div (2 * den)
        text == IF digits = 0 THEN PadDigits(n, 1)
                ELSE PadDigits(n \div Pow10(digits), 1) \o "." \o PadDigits(n % Pow10(digits), digits)
    IN  IF den = NaN THEN "NaN"
        ELSE IF num < 0 THEN "-" \o text ELSE text

\* The authors of the records in the order of their first record.
RECURSIVE AuthorsOf(_)
AuthorsOf(records) ==
    IF records = <<>> THEN <<>>
    ELSE SetAdd(AuthorsOf(SubSeq(records, 1, Len(records) - 1)), records[Len(records)].author)

\* Variant: the last entry of the sorted list in the place of the first.
TopOfLast(authors, byAuthor) ==
    IF authors = <<>> THEN "N/A"
    ELSE SortByWeight(authors, byAuthor)[Len(authors)]

\* Object.entries(byAuthor).sort((a, b) => b[1] - a[1])[0]: top ? top[0] : 'N/A'
TopOf(authors, byAuthor) ==
    IF authors = <<>> THEN "N/A" ELSE SortByWeight(authors, byAuthor)[1]

\* Variant: topContributor starts as 'N/A' and is ranked only without a filter.
StatsOfUnnamed(filtered, author) ==
    LET weekSpan == WeekSpan(filtered)
        byAuthor == [a \in {filtered[i].author : i \in DOMAIN filtered} |->
                        Cardinality({i \in DOMAIN filtered : filtered[i].author = a})]
    IN  [total |-> Len(filtered),
         avgPerWeek |-> ToFixed(Len(filtered), weekSpan, 1),
         topContributor |-> IF author # "" THEN "N/A"
                            ELSE TopOf(AuthorsOf(filtered), byAuthor),
         weeks |-> weekSpan]

\* getStats after its early return.
StatsOf(filtered, author) ==
    LET weekSpan == WeekSpan(filtered)
        byAuthor == [a \in {filtered[i].author : i \in DOMAIN filtered} |->
                        Cardinality({i \in DOMAIN filtered : filtered[i].author = a})]
    IN  [total |-> Len(filtered),
         avgPerWeek |-> ToFixed(Len(filtered), weekSpan, 1),
         topContributor |-> IF author # "" THEN author
                            ELSE TopOf(AuthorsOf(filtered), byAuthor),
         weeks |-> weekSpan]

\* getStats without its early return.
getStatsUnguarded(records, author) ==
    StatsOf(FilterByAuthor(records, author), author)

getStats(records, author) ==
    IF Len(FilterByAuthor(records, author)) = 0
    THEN [total |-> 0, avgPerWeek |-> "0", topContributor |-> "N/A", weeks |-> 0]
    ELSE StatsOf(FilterByAuthor(records, author), author)

\* getImpactStats after its early return.
ImpactStatsOf(filtered, author) ==
    LET weekSpan == WeekSpan(filtered)
        totalLinesAdded == SumOver(filtered, "linesAdded")
        totalLinesDeleted == SumOver(filtered, "linesDeleted")
        byAuthor == [a \in {filtered[i].author : i \in DOMAIN filtered} |->
                        SumOver(Select(filtered, "author", a), "linesAdded")
                          + SumOver(Select(filtered, "author", a), "linesDeleted")]
    IN  [totalAdded |-> totalLinesAdded,
         totalDeleted |-> totalLinesDeleted,
         netChange |-> totalLinesAdded - totalLinesDeleted,
         avgPerWeek |-> ToFixed(totalLinesAdded - totalLinesDeleted, weekSpan, 0),
         topContributor |-> IF author # "" THEN author
                            ELSE TopOf(AuthorsOf(filtered), byAuthor),
         weeks |-> weekSpan]

getImpactStats(records, author) ==
    IF Len(FilterByAuthor(records, author)) = 0
    THEN [totalAdded |-> 0, totalDeleted |-> 0, netChange |-> 0, avgPerWeek |-> "0",
          topContributor |-> "N/A", weeks |-> 0]
    ELSE ImpactStatsOf(FilterByAuthor(records, author), author)

\* Length of the record lists.
MaxStatRecords == 3

StatRecord(author, day) ==
    [author |-> author, authorEmail |-> "", project |-> "Alpha", repository |-> "web",
     closedDate |-> day, prId |-> 1, title |-> "t",
     linesAdded |-> IF author = "bob" THEN 0 ELSE 130,
     linesDeleted |-> IF author = "bob" THEN 95 ELSE 15]

StatRecordSet ==
    {StatRecord("alice", d) : d \in {"2024-01-01", "2024-01-03", "2024-01-16"}}
    \cup {StatRecord("bob", d) : d \in {"2024-01-01", "2024-01-16"}}

\* No filter, an author with records, an author without.
AuthorFilters == {"", "alice", "bob", "carol"}

StatsInit ==
    /\ statPc = "input"
    /\ statRecords \in SeqsUpTo(StatRecordSet, MaxStatRecords)
    /\ statAuthor \in AuthorFilters
    /\ statResult = <<>>
    /\ statImpact = <<>>

\* Dashboard: getStats(filteredRecords, selectedAuthor)
GetStats ==
    /\ statPc = "input"
    /\ statResult' = getStats(statRecords, statAuthor)
    /\ statPc' = "velocity"
    /\ UNCHANGED <<statRecords, statAuthor, statImpact, ingestVars, codecVars, dashVars,
                   aggVars, maVars, outVars>>

\* Dashboard: getImpactStats(filteredRecordsForImpact, selectedAuthor)
GetImpactStats ==
    /\ statPc = "velocity"
    /\ statImpact' = getImpactStats(statRecords, statAuthor)
    /\ statPc' = "impact"
    /\ UNCHANGED <<statRecords, statAuthor, statResult, ingestVars, codecVars, dashVars,
                   aggVars, maVars, outVars>>

InitStats ==
    StatsInit /\ IngestIdle /\ CodecIdle /\ AggIdle /\ AverageIdle /\ OutliersIdle
        /\ DashIdle

NextStats == GetStats \/ GetImpactStats

SpecStats == InitStats /\ [][NextStats]_vars

\* The list is empty, or the author filter is active and leaves no record.
NothingToCount ==
    \/ statRecords = <<>>
    \/ statAuthor # "" /\ \A i \in DOMAIN statRecords : statRecords[i].author # statAuthor

\* C10: on an empty list, or a list the author filter leaves empty, getStats
\* returns total 0, avgPerWeek '0', topContributor 'N/A', weeks 0 and
\* getImpactStats all-zero totals, avgPerWeek '0', topContributor 'N/A',
\* weeks 0 (no NaN from a division by zero).
C10_EmptyStats ==
    /\ (statPc \in {"velocity", "impact"} /\ NothingToCount) =>
          statResult = [total |-> 0, avgPerWeek |-> "0", topContributor |-> "N/A",
                        weeks |-> 0]
    /\ (statPc = "impact" /\ NothingToCount) =>
          statImpact = [totalAdded |-> 0, totalDeleted |-> 0, netChange |-> 0,
                        avgPerWeek |-> "0", topContributor |-> "N/A", weeks |-> 0]

\* Both were computed on a list of two records that the filter left empty.
C10_Witness ==
    /\ statPc = "impact" /\ Len(statRecords) = 2 /\ statAuthor = "carol"
    /\ statResult.total = 0 /\ statImpact.weeks = 0

\* The indices of the records the author filter keeps.
Counted ==
    {i \in DOMAIN statRecords : statAuthor = "" \/ statRecords[i].author = statAuthor}

\* The day number of the closedDate of record i.
ClosedDay(i) == DateParse(statRecords[i].closedDate) \div 24

\* Days between the earliest and the latest closedDate of the counted records.
DaySpan ==
    LET days == {ClosedDay(i) : i \in Counted}
    IN  (CHOOSE d \in days : \A e \in days : e <= d)
          - (CHOOSE d \in days : \A e \in days : d <= e)

\* n tenths written with one decimal.
Tenths(n) == NatToString(n \div 10) \o "." \o NatToString(n % 10)

\* The three records of the example.
ExampleRecords ==
    <<StatRecord("alice", "2024-01-01"), StatRecord("bob", "2024-01-01"),
      StatRecord("alice", "2024-01-03")>>

\* C11: for a non-empty filtered set, weeks of getStats and of getImpactStats
\* is max(1, ceil(D / 7)), D the days between the earliest and the latest
\* closedDate of the filtered set, hence at least 1; avgPerWeek of getStats
\* is count / weeks written with one decimal (a nearest one); the example
\* list filtered to alice gives total 2, weeks 1, avgPerWeek '2.0'.
C11_WeekSpan ==
    (statPc \in {"velocity", "impact"} /\ Counted # {}) =>
        LET weeks == Max(1, CeilDiv(DaySpan, 7))
            count == Cardinality(Counted)
        IN  /\ statResult.weeks = weeks
            /\ statResult.weeks >= 1
            /\ statResult.total = count
            /\ \E n \in 0 .. 10 * count + 1 :
                  /\ statResult.avgPerWeek = Tenths(n)
                  /\ 2 * Abs(10 * count - n * weeks) <= weeks
            /\ statPc = "impact" => statImpact.weeks = weeks
            /\ (statRecords = ExampleRecords /\ statAuthor = "alice") =>
                  /\ statResult.total = 2 /\ statResult.weeks = 1
                  /\ statResult.avgPerWeek = "2.0"

\* Both were computed on the example list filtered to alice.
C11_Witness ==
    /\ statPc = "impact" /\ statRecords = ExampleRecords /\ statAuthor = "alice"
    /\ statResult.avgPerWeek = "2.0" /\ statImpact.weeks = 1

\* C12 as stated: whenever an author filter is active, getStats and
\* getImpactStats report that author as topContributor, whatever the list.
C12_FilteredAuthorVerbatim ==
    /\ (statPc \in {"velocity", "impact"} /\ statAuthor # "") =>
          statResult.topContributor = statAuthor
    /\ (statPc = "impact" /\ statAuthor # "") =>
          statImpact.topContributor = statAuthor

\* C12, amended: whenever an author filter is active and the list has a
\* record of that author, getStats and getImpactStats report that author as
\* topContributor; when the list has none, both report 'N/A'.
C12_FilteredAuthorWithRecords ==
    /\ (statPc \in {"velocity", "impact"} /\ statAuthor # "") =>
          statResult.topContributor = IF Counted # {} THEN statAuthor ELSE "N/A"
    /\ (statPc = "impact" /\ statAuthor # "") =>
          statImpact.topContributor = IF Counted # {} THEN statAuthor ELSE "N/A"

\* Both were computed with the filter on bob, who has one record of three and
\* is not the author a ranking would put first.
C12_Witness ==
    /\ statPc = "impact" /\ statAuthor = "bob" /\ Len(statRecords) = 3
    /\ Cardinality(Counted) = 1 /\ statRecords[1].author = "alice"
    /\ statResult.topContributor = "bob" /\ statImpact.topContributor = "bob"

\* The authors of the list.
StatAuthors == {statRecords[i].author : i \in DOMAIN statRecords}

\* The number of records of an author.
RecordCount(a) == Cardinality({i \in DOMAIN statRecords : statRecords[i].author = a})

\* The lines added and deleted by an author, summed record by record.
RECURSIVE LinesUpTo(_, _)
LinesUpTo(a, n) ==
    IF n = 0 THEN 0
    ELSE LinesUpTo(a, n - 1)
           + (IF statRecords[n].author = a
              THEN statRecords[n].linesAdded + statRecords[n].linesDeleted ELSE 0)

\* C13: without an author filter and on a non-empty list, topContributor is
\* an author of the list and no author has strictly more: records in
\* getStats, linesAdded + linesDeleted in getImpactStats.
C13_TopContributorIsMaximal ==
    /\ (statPc \in {"velocity", "impact"} /\ statAuthor = "" /\ statRecords # <<>>) =>
          /\ statResult.topContributor \in StatAuthors
          /\ \A a \in StatAuthors :
                RecordCount(a) <= RecordCount(statResult.topContributor)
    /\ (statPc = "impact" /\ statAuthor = "" /\ statRecords # <<>>) =>
          /\ statImpact.topContributor \in StatAuthors
          /\ \A a \in StatAuthors :
                LinesUpTo(a, Len(statRecords))
                  <= LinesUpTo(statImpact.topContributor, Len(statRecords))

\* Both were computed on a list where the two rankings differ: bob and alice
\* have one record each, bob's first, and alice's record has more lines.
C13_Witness ==
    /\ statPc = "impact" /\ statAuthor = "" /\ Len(statRecords) = 2
    /\ statRecords[1].author = "bob" /\ statRecords[2].author = "alice"
    /\ statResult.topContributor = "bob" /\ statImpact.topContributor = "alice"

-----------------------------------------------------------------------------
(* getPRChangeStats as seen by its caller                                  *)

\* The file-change count k of a commit, 0 when it is missing.
FileCount(commitId, k) ==
    IF HasChangeCounts(commitId) /\ k \in DOMAIN ChangeCounts(commitId)
    THEN ChangeCounts(commitId)[k] ELSE 0

AddedBy(commitId) == FileCount(commitId, "Add") * 50 + FileCount(commitId, "Edit") * 15

DeletedBy(commitId) ==
    FileCount(commitId, "Delete") * 30 + FileCount(commitId, "Edit") * 5

\* The sum of weight[q] over the positions q in 1..n that are not in skipped.
RECURSIVE SumExcept(_, _, _)
SumExcept(weight, n, skipped) ==
    IF n = 0 THEN 0
    ELSE SumExcept(weight, n - 1, skipped) + (IF n \in skipped THEN 0 ELSE weight[n])

\* C14: when every fetch succeeds, the pair getPRChangeStats returns for a
\* pull request (the record's linesAdded, linesDeleted) is the sum over its
\* commits of Add*50 + Edit*15 and of Delete*30 + Edit*5, a missing count
\* being 0, and neither is negative.
C14_EstimateIsWeightedSum ==
    (withLoc /\ failures = 0) =>
        \A i \in DOMAIN allRecords :
            LET cs == CommitsOf(allRecords[i].prId)
            IN  /\ allRecords[i].linesAdded =
                      SumExcept([q \in DOMAIN cs |-> AddedBy(cs[q])], Len(cs), {})
                /\ allRecords[i].linesDeleted =
                      SumExcept([q \in DOMAIN cs |-> DeletedBy(cs[q])], Len(cs), {})
                /\ allRecords[i].linesAdded >= 0
                /\ allRecords[i].linesDeleted >= 0

\* A run without a failure has estimated pull request 10001 from its two
\* commits: (1*50 + 2*15) + 2*50 added, 3*30 + 2*5 deleted.
C14_Witness ==
    /\ pc = "done" /\ withLoc /\ failures = 0
    /\ \E i \in DOMAIN allRecords :
          /\ allRecords[i].prId = 10001
          /\ allRecords[i].linesAdded = 180
          /\ allRecords[i].linesDeleted = 100

\* The position in the request log of the commit-list request of a pull
\* request, 0 if there is none.
ListRequest(prId) ==
    LET at == {k \in DOMAIN requests :
                  requests[k].kind = "commits" /\ requests[k].arg = prId}
    IN  IF at = {} THEN 0 ELSE CHOOSE k \in at : TRUE

\* The positions q of the commits of a pull request whose detail request,
\* the q-th after the commit-list request at k, settled with an outcome in
\* the given set.
DetailsSettled(k, n, how) ==
    {q \in 1..n :
        /\ k + q <= Len(outcomes)
        /\ \A x \in k + 1 .. k + q : requests[x].kind = "commit"
        /\ outcomes[k + q] \in how}

\* C15: a commit detail fetch that fails contributes zero and the estimate
\* goes on, so the pair returned for a pull request is the sum of the
\* contributions of all its other commits; a failing commit-list fetch gives
\* {0, 0}; the estimator never raises to fetchPRData.
C15_EstimateSurvivesFailures ==
    /\ \A i \in DOMAIN allRecords :
          LET cs == CommitsOf(allRecords[i].prId)
              k == ListRequest(allRecords[i].prId)
              failed == DetailsSettled(k, Len(cs), {"notok", "rejected"})
          IN  (withLoc /\ k # 0) =>
                 IF outcomes[k] # "ok"
                 THEN allRecords[i].linesAdded = 0 /\ allRecords[i].linesDeleted = 0
                 ELSE /\ allRecords[i].linesAdded =
                            SumExcept([q \in DOMAIN cs |-> AddedBy(cs[q])], Len(cs), failed)
                      /\ allRecords[i].linesDeleted =
                            SumExcept([q \in DOMAIN cs |-> DeletedBy(cs[q])], Len(cs), failed)
    /\ (pc = "failed" /\ requests # <<>>) => requests[Len(requests)].kind = "repos"

\* The same with the rejected detail fetches left out: a detail fetch that is
\* answered with a non-success response contributes zero and the others count.
EstimateSurvivesNotOk ==
    (\A x \in DOMAIN outcomes : requests[x].kind = "commit" => outcomes[x] # "rejected")
        => C15_EstimateSurvivesFailures

-----------------------------------------------------------------------------
(* fetchPRData: the progress callback                                      *)

\* The number of listing entries the repository loop has begun.
Begun == IF pc = "done" THEN Len(repos) ELSE repoIdx

\* The names of the processed entries among the first n of the listing.
ProcessedNames(n) ==
    LET kept == SelectSeq(SubSeq(repos, 1, n), IsProcessed)
    IN  [x \in DOMAIN kept |-> kept[x].name]

\* The listing positions a pull-request page was requested for.
PagedRepos == {requests[k].repo : k \in {x \in DOMAIN requests : requests[x].kind = "prs"}}

\* C17: the progress callback is called exactly once for each processed
\* repository, with its name, in the order of the listing, and before the
\* repository's first page request (every repository with a page request has
\* been reported); an entry without project name or repository name gets no
\* call and no page request.
C17_ProgressPerRepository ==
    /\ hasOnProgress => progress = ProcessedNames(Begun)
    /\ hasOnProgress => Cardinality(PagedRepos) = Len(progress)
    /\ \A j \in PagedRepos : j \in 1..Begun /\ IsProcessed(repos[j])
    /\ \A k \in DOMAIN requests : requests[k].repo # 0 => IsProcessed(repos[requests[k].repo])

\* A finished run over the listing web, orphan (no project), api reported web
\* and api and asked for no page of the entry in between.
C17_Witness ==
    /\ pc = "done" /\ hasOnProgress /\ Len(repos) = 3 /\ ~IsProcessed(repos[2])
    /\ progress = <<repos[1].name, repos[3].name>>
    /\ PagedRepos = {1, 3}

-----------------------------------------------------------------------------
(* fetchPRData: one request at a time                                      *)

\* The last page request of the repository at listing position j.
LastPageRequest(j) ==
    CHOOSE k \in DOMAIN requests :
        /\ requests[k].kind = "prs" /\ requests[k].repo = j
        /\ \A x \in DOMAIN requests :
              (requests[x].kind = "prs" /\ requests[x].repo = j) => x <= k

\* The pagination of the repository at position j is over: its last page
\* request failed, or was answered with a page shorter than top.
PaginationOver(j) ==
    LET k == LastPageRequest(j)
    IN  /\ k <= Len(outcomes)
        /\ \/ outcomes[k] # "ok"
           \/ PageLength(repos[j].id, requests[k].arg, top) < top

\* C20: at most one request is outstanding at any time, a request is issued
\* only when all earlier ones have settled, the requests follow the order of
\* the listing, and a repository is asked about only when the pagination of
\* every repository asked about before is over.
C20_OneRequestAtATime ==
    /\ inFlight \in {0, 1}
    /\ Len(requests) = Len(outcomes) + inFlight
    /\ \A a, b \in DOMAIN requests : a < b => requests[a].repo <= requests[b].repo
    /\ \A a \in DOMAIN requests : (requests[a].kind = "repos") = (a = 1)
    /\ \A j \in PagedRepos :
          (\E x \in DOMAIN requests : requests[x].repo > j) => PaginationOver(j)

\* A request of the next processed repository (the third entry) is outstanding
\* after the three pages and the commit fetches of the first.
C20_Witness ==
    /\ inFlight = 1 /\ withLoc /\ Len(requests) >= 8
    /\ requests[Len(requests)].repo = 3
    /\ Cardinality({k \in DOMAIN requests :
                      requests[k].kind = "prs" /\ requests[k].repo = 1}) = 3

-----------------------------------------------------------------------------
(* processData, processImpactData: the author list                         *)

\* The position of the first record of an author.
FirstRecordOf(a) ==
    CHOOSE i \in DOMAIN aggRecords :
        /\ aggRecords[i].author = a
        /\ \A j \in 1..(i - 1) : aggRecords[j].author # a

\* The contribution of an author: records, or lines added and deleted.
RECURSIVE Contribution(_, _, _)
Contribution(a, n, mode) ==
    IF n = 0 THEN 0
    ELSE Contribution(a, n - 1, mode)
           + (IF aggRecords[n].author # a THEN 0
              ELSE IF mode = "velocity" THEN 1
              ELSE aggRecords[n].linesAdded + aggRecords[n].linesDeleted)

\* list holds every author of the records once, heavier before lighter and,
\* of two equally heavy, the one met first in the records before the other.
RankedAuthors(list, mode) ==
    LET n == Len(aggRecords)
    IN  /\ {list[i] : i \in DOMAIN list} = {aggRecords[i].author : i \in DOMAIN aggRecords}
        /\ \A i, j \in DOMAIN list : i # j => list[i] # list[j]
        /\ \A i, j \in DOMAIN list : i < j =>
              \/ Contribution(list[i], n, mode) > Contribution(list[j], n, mode)
              \/ /\ Contribution(list[i], n, mode) = Contribution(list[j], n, mode)
                 /\ FirstRecordOf(list[i]) < FirstRecordOf(list[j])

\* C16: authorList of processData and of processImpactData holds each
\* distinct author of the input exactly once, by descending contribution
\* (records for velocity, added + deleted for impact), authors of equal
\* contribution in the order of their first record.
C16_AuthorListOrder ==
    /\ aggPc \in {"velocity", "impact"} => RankedAuthors(aggData.authorList, "velocity")
    /\ aggPc = "impact" => RankedAuthors(aggImpact.authorList, "impact")

\* Both lists were computed on carol, bob, alice, bob: bob leads both, carol
\* and alice tie and keep the order of their first records.
C16_Witness ==
    /\ aggPc = "impact" /\ Len(aggRecords) = 4
    /\ aggData.authorList = <<"bob", "carol", "alice">>
    /\ aggImpact.authorList = <<"bob", "carol", "alice">>

-----------------------------------------------------------------------------
(* fetchPRData: the cutoff and the pagination                              *)

\* The page request at position k of the log was answered with a page.
PageArrived(k) ==
    requests[k].kind = "prs" /\ k <= Len(outcomes) /\ outcomes[k] = "ok"

\* The positions in the upstream's order of the items of that page that are
\* at or after the cutoff.
PassingOnPage(k) ==
    LET id == repos[requests[k].repo].id
        n == PageLength(id, requests[k].arg, top)
    IN  {i \in FilterResults[id] : i > requests[k].arg /\ i <= requests[k].arg + n}

\* The item loop over that page has ended.
PageDone(k) ==
    pc = "done" \/ \E x \in (k + 1)..Len(requests) : requests[x].kind = "prs"

\* C21: the cutoff never ends the pagination: after a full page whose items
\* are all older than the cutoff (or have no usable date) no record is
\* pushed and the next page of the repository is requested, and every item
\* at or after the cutoff has its record, on whatever page it arrived.
C21_CutoffDoesNotEndPagination ==
    \A k \in DOMAIN requests : PageArrived(k) =>
        LET j == requests[k].repo
            id == repos[j].id
            full == PageLength(id, requests[k].arg, top) = top
        IN  /\ (full /\ PassingOnPage(k) = {} /\ (k < Len(requests) \/ pc = "done")) =>
                  /\ k < Len(requests)
                  /\ requests[k + 1] = [kind |-> "prs", repo |-> j,
                                        arg |-> requests[k].arg + top]
                  /\ \A r \in Range(allRecords) :
                        ~(r.prId \div 10000 = id /\ r.prId % 10000 > requests[k].arg
                            /\ r.prId % 10000 <= requests[k].arg + top)
            /\ PageDone(k) =>
                  \A i \in PassingOnPage(k) :
                      \E r \in Range(allRecords) : r.prId = id * 10000 + i

\* The run is over: the second page of web (offset 1000) held nothing at or
\* after the cutoff, the third was requested and its item 2400 has a record.
C21_Witness ==
    /\ pc = "done" /\ Len(requests) >= 4
    /\ \E k \in DOMAIN requests :
          /\ PageArrived(k) /\ requests[k].arg = 1000 /\ PassingOnPage(k) = {}
          /\ repos[requests[k].repo].id = 1
          /\ PageArrived(k + 1) /\ requests[k + 1].arg = 2000
    /\ \E r \in Range(allRecords) : r.prId = 12400

-----------------------------------------------------------------------------
(* fetchPRData: when the estimator is called                               *)

\* The positions in the log of the commit-list requests.
EstimatorCalls == {k \in DOMAIN requests : requests[k].kind = "commits"}

\* What getPRChangeStats returned for a pull request, read from the log of
\* its call: {0, 0} after a failed commit list or a rejected detail fetch,
\* otherwise the sums over the commits whose detail was answered.
EstimatorReturn(prId) ==
    LET cs == CommitsOf(prId)
        k == ListRequest(prId)
    IN  IF outcomes[k] # "ok" \/ DetailsSettled(k, Len(cs), {"rejected"}) # {}
        THEN <<0, 0>>
        ELSE <<SumExcept([q \in DOMAIN cs |-> AddedBy(cs[q])], Len(cs),
                         DetailsSettled(k, Len(cs), {"notok"})),
               SumExcept([q \in DOMAIN cs |-> DeletedBy(cs[q])], Len(cs),
                         DetailsSettled(k, Len(cs), {"notok"}))>>

\* C22: without withLoc no commit-list or commit-detail request is issued
\* and every record has linesAdded = linesDeleted = 0; with it the estimator
\* is called once for each item that passes the filter, for no other item,
\* and the record pushed after the call holds what the call returned.
C22_EstimatorOnlyWhenRequested ==
    /\ ~withLoc =>
          /\ \A k \in DOMAIN requests : requests[k].kind \notin {"commits", "commit"}
          /\ \A r \in Range(allRecords) : r.linesAdded = 0 /\ r.linesDeleted = 0
    /\ withLoc =>
          /\ \A k \in EstimatorCalls :
                /\ requests[k].arg \div 10000 = repos[requests[k].repo].id
                /\ Passes(requests[k].arg \div 10000, requests[k].arg % 10000)
                /\ \A x \in EstimatorCalls : requests[x].arg = requests[k].arg => x = k
          /\ Cardinality(EstimatorCalls) =
                Len(allRecords) + (IF pc \in {"awaitCommits", "awaitCommit"} THEN 1 ELSE 0)
          /\ \A r \in Range(allRecords) :
                /\ ListRequest(r.prId) # 0
                /\ <<r.linesAdded, r.linesDeleted>> = EstimatorReturn(r.prId)

\* A run with withLoc is over: as many estimator calls as records, one of
\* them (pull request 20001, one commit with Add 2) stored as 100 / 0.
C22_Witness ==
    /\ pc = "done" /\ withLoc /\ Len(allRecords) >= 2
    /\ Cardinality(EstimatorCalls) = Len(allRecords)
    /\ \E r \in Range(allRecords) :
          r.prId = 20001 /\ r.linesAdded = 100 /\ r.linesDeleted = 0

-----------------------------------------------------------------------------
(* processData, processImpactData: the buckets                             *)

\* The records closed on a day.
ClosedOn(day) == {i \in DOMAIN aggRecords : aggRecords[i].closedDate = day}

\* The sum of a field of the records at the given positions.
RECURSIVE SumAt(_, _)
SumAt(at, field) ==
    IF at = {} THEN 0
    ELSE LET i == CHOOSE x \in at : TRUE
         IN  aggRecords[i][field] + SumAt(at \ {i}, field)

\* The sum of the counts of an object under the given keys.
RECURSIVE SumCounts(_, _)
SumCounts(o, keys) ==
    IF keys = {} THEN 0
    ELSE LET k == CHOOSE x \in keys : TRUE
         IN  o[k] + SumCounts(o, keys \ {k})

\* The authors of the records closed on a day.
AuthorsOn(day) == {aggRecords[i].author : i \in ClosedOn(day)}

\* C23: after aggregation every day bucket is consistent, whatever the
\* author names: in velocity mode the daily total is the number of records
\* closed that day and the sum of that day's per-author counts; in impact
\* mode totalAdded and totalDeleted are the sums of linesAdded and
\* linesDeleted of the day's records and of the day's per-author pairs; the
\* per-author totals, the per-project totals and the grand total agree.
C23_BucketsConsistent ==
    /\ aggPc \in {"velocity", "impact"} =>
          /\ \A day \in DOMAIN aggData.byDay :
                /\ aggData.byDay[day]["total"] = Cardinality(ClosedOn(day))
                /\ aggData.byDay[day]["total"] = SumCounts(aggData.byDay[day], AuthorsOn(day))
          /\ SumCounts(aggData.byAuthor, DOMAIN aggData.byAuthor) = aggData.totalPRs
          /\ SumCounts(aggData.byProject, DOMAIN aggData.byProject) = aggData.totalPRs
          /\ aggData.totalPRs = Len(aggRecords)
    /\ aggPc = "impact" =>
          /\ \A day \in DOMAIN aggImpact.byDay :
                /\ aggImpact.byDay[day]["totalAdded"] = SumAt(ClosedOn(day), "linesAdded")
                /\ aggImpact.byDay[day]["totalDeleted"] = SumAt(ClosedOn(day), "linesDeleted")
                /\ aggImpact.byDay[day]["totalAdded"] =
                      SumValues(aggImpact.byDay[day], AuthorsOn(day), "added")
                /\ aggImpact.byDay[day]["totalDeleted"] =
                      SumValues(aggImpact.byDay[day], AuthorsOn(day), "deleted")
          /\ aggImpact.totalLinesAdded = SumAt(DOMAIN aggRecords, "linesAdded")
          /\ aggImpact.totalLinesDeleted = SumAt(DOMAIN aggRecords, "linesDeleted")
          /\ SumValues(aggImpact.byProject, DOMAIN aggImpact.byProject, "added")
                = aggImpact.totalLinesAdded
          /\ SumValues(aggImpact.byProject, DOMAIN aggImpact.byProject, "deleted")
                = aggImpact.totalLinesDeleted

\* The same for lists without an author named total.
BucketsConsistentForOtherNames ==
    (\A i \in DOMAIN aggRecords : aggRecords[i].author # "total") => C23_BucketsConsistent

-----------------------------------------------------------------------------
(* fetchPRData: the order of the file                                      *)

\* C27: the rows written by a completed run (and returned as text) are in
\* non-decreasing closedDate order and are exactly the records accumulated
\* during the run: one row for each item at or after the cutoff of each page
\* that arrived, and no other row.
C27_FileSortedAndComplete ==
    pc = "done" =>
        LET rows == parseCSV(csvFile[1])
        IN  /\ Len(rows) = Len(allRecords)
            /\ \A n \in DOMAIN rows :
                  /\ rows[n].closedDate = allRecords[n].closedDate
                  /\ rows[n].prId = allRecords[n].prId
            /\ \A a, b \in DOMAIN rows :
                  a < b => ~StrLess(rows[b].closedDate, rows[a].closedDate)
            /\ \A k \in DOMAIN requests : PageArrived(k) =>
                  \A i \in PassingOnPage(k) :
                      Cardinality({n \in DOMAIN rows :
                          rows[n].prId = repos[requests[k].repo].id * 10000 + i}) = 1
            /\ \A n \in DOMAIN rows :
                  \E k \in DOMAIN requests :
                      /\ PageArrived(k)
                      /\ rows[n].prId \div 10000 = repos[requests[k].repo].id
                      /\ rows[n].prId % 10000 \in PassingOnPage(k)

\* The three records of web were pushed as 10001 (2025-01-10), 11000
\* (2024-03-15), 12400 (2024-06-01) and written in the order of their dates.
C27_Witness ==
    /\ pc = "done" /\ Len(allRecords) = 3
    /\ allRecords[1].prId = 11000 /\ allRecords[2].prId = 12400
    /\ allRecords[3].prId = 10001
    /\ Len(parseCSV(csvFile[1])) = 3

-----------------------------------------------------------------------------
(* removeOutliers: what is retained                                        *)

\* The least linesAdded + linesDeleted of the records.
LeastTotal ==
    CHOOSE t \in {TotalLines(outRecords[i]) : i \in DOMAIN outRecords} :
        \A i \in DOMAIN outRecords : t <= TotalLines(outRecords[i])

\* C30: for a non-empty list and a percentile p in 0..100 removeOutliers
\* returns a non-empty list of at least min(n, floor(n * p / 100) + 1)
\* records that holds every record of the least linesAdded + linesDeleted;
\* with p = 99 a list of fewer than 100 records is returned whole.
C30_RetainedRecords ==
    (outPc = "done" /\ outRecords # <<>>) =>
        LET n == Len(outRecords)
        IN  /\ outResult # <<>>
            /\ Len(outResult) >= Min(n, (n * outPercentile) \div 100 + 1)
            /\ \A i \in DOMAIN outRecords :
                  TotalLines(outRecords[i]) = LeastTotal =>
                      \E k \in DOMAIN outResult : outResult[k] = outRecords[i]
            /\ (outPercentile = 99 /\ n < 100) => outResult = outRecords

\* The same for the percentile of the dashboard only.
RetainedRecordsFor99 == outPercentile = 99 => C30_RetainedRecords

\* The same without the count: the result is not empty and holds the records
\* of the least total.
LeastRecordsRetained ==
    (outPc = "done" /\ outRecords # <<>>) =>
        /\ outResult # <<>>
        /\ \A i \in DOMAIN outRecords :
              TotalLines(outRecords[i]) = LeastTotal =>
                  \E k \in DOMAIN outResult : outResult[k] = outRecords[i]

-----------------------------------------------------------------------------
(***************************************************************************)
(* The dashboard component: the initial load of pr-velocity.csv, loadData  *)
(* and handleRefresh, which reads the event stream of POST /api/refresh.   *)
(* The initial load and a refresh run concurrently: the refresh button is  *)
(* rendered while the file is still being fetched.  The button is disabled *)
(* while isRefreshing, so one refresh runs at a time.                      *)
(***************************************************************************)

\* Refreshes the user starts in one run of the model.
MaxRefreshes == 1

\* Characters one reader.read() delivers, unless it delivers all that is left.
ChunkLength == 30

NoDataError == "No data found in CSV file"

\* loadData(text) on the state st = [allRecords, error, isLoading].
loadData(st, text) ==
    LET records == CHOOSE r \in {parseCSV(t) : t \in {text}} : TRUE
    IN  IF Len(records) = 0
        THEN [st EXCEPT !.error = NoDataError]
        ELSE [st EXCEPT !.allRecords = records, !.error = "", !.isLoading = FALSE]

\* The row of ForeignRows whose author is a.
RowOf(a) == CHOOSE r \in ForeignRows : r[1] = a

\* What pr-velocity.csv may hold: nothing, the header alone, one row that is
\* too short, one well-formed row, short rows around well-formed ones.
InitialFiles ==
    { "",
      csvHeader,
      FileOf(<<RowOf("Dee")>>),
      FileOf(<<RowOf("Cy")>>),
      FileOf(<<RowOf("Dee"), RowOf("Bob"), RowOf("Cy")>>) }

\* The file a refresh produces: Dee's row is too short, Eve's is decoded.
RefreshedFile == FileOf(<<RowOf("Dee"), RowOf("Eve")>>)

\* The payloads of the events, as the server's JSON.stringify writes them.
\* The csv of a complete event is abbreviated to one letter in the payload:
\* A stands for RefreshedFile, H for the header alone.
ProgressWeb == "{\"type\":\"progress\",\"repo\":\"web\"}"

ProgressApi == "{\"type\":\"progress\",\"repo\":\"api\"}"

CompleteFile == "{\"type\":\"complete\",\"csv\":\"A\"}"

CompleteHeader == "{\"type\":\"complete\",\"csv\":\"H\"}"

ErrorEvent == "{\"type\":\"error\",\"message\":\"Failed to fetch repos\"}"

\* A payload cut short: not valid JSON.
Malformed == "{\"type\":\"progress\",\"repo\":"

\* JSON.parse(jsonStr) on these payloads; anything else is a SyntaxError.
JSONParse(jsonStr) ==
    CASE jsonStr = ProgressWeb -> [type |-> "progress", repo |-> "web"]
      [] jsonStr = ProgressApi -> [type |-> "progress", repo |-> "api"]
      [] jsonStr = CompleteFile -> [type |-> "complete", csv |-> RefreshedFile]
      [] jsonStr = CompleteHeader -> [type |-> "complete", csv |-> csvHeader]
      [] jsonStr = ErrorEvent -> [type |-> "error", message |-> "Failed to fetch repos"]
      [] OTHER -> [type |-> "SyntaxError"]

\* line.startsWith(prefix)
StartsWith(line, prefix) ==
    Len(line) >= Len(prefix) /\ SubSeq(line, 1, Len(prefix)) = prefix

\* The body of the loop over the lines of a chunk, on the state
\* st = [refreshingRepo, csvContent, serverError]; a SyntaxError is caught
\* and the line skipped.
HandleLine(st, line) ==
    IF ~StartsWith(line, "data: ") THEN st
    ELSE LET data == JSONParse(SubSeq(line, 7, Len(line)))
         IN  CASE data.type = "progress" -> [st EXCEPT !.refreshingRepo = data.repo]
               [] data.type = "complete" -> [st EXCEPT !.csvContent = data.csv]
               [] data.type = "error" -> [st EXCEPT !.serverError = data.message]
               [] OTHER -> st

\* Variant: a payload that is not valid JSON ends the loop over the lines.
RECURSIVE HandleLinesUntilMalformed(_, _)
HandleLinesUntilMalformed(st, lines) ==
    IF lines = <<>> THEN st
    ELSE IF /\ StartsWith(Head(lines), "data: ")
            /\ JSONParse(SubSeq(Head(lines), 7, Len(Head(lines)))).type = "SyntaxError"
    THEN st
    ELSE HandleLinesUntilMalformed(HandleLine(st, Head(lines)), Tail(lines))

\* for (const line of lines)
RECURSIVE HandleLines(_, _)
HandleLines(st, lines) ==
    IF lines = <<>> THEN st
    ELSE HandleLines(HandleLine(st, Head(lines)), Tail(lines))

\* An event as the server writes it: res.write(`data: ${payload}\n\n`).
EventText(payload) == "data: " \o payload \o "\n\n"

\* The bodies a response may deliver: progress and the file; progress and an
\* error; a malformed payload before later events; a malformed payload and an
\* error; a file without records; a file and then an error; a comment line
\* and progress only; a stream cut inside its last event; nothing.
Streams ==
    { EventText(ProgressWeb) \o EventText(ProgressApi) \o EventText(CompleteFile),
      EventText(ProgressWeb) \o EventText(ErrorEvent),
      EventText(Malformed) \o EventText(ProgressApi) \o EventText(CompleteFile),
      EventText(Malformed) \o EventText(ErrorEvent),
      EventText(ProgressWeb) \o EventText(CompleteHeader),
      EventText(CompleteFile) \o EventText(ErrorEvent),
      ": keep-alive\n\n" \o EventText(ProgressWeb),
      EventText(ProgressWeb) \o "data: " \o CompleteFile,
      "" }

\* useEffect: the fetch of pr-velocity.csv answers not ok, or rejects.
LoadMissing ==
    /\ loadPc = "fetching"
    /\ loadPc' = "settled"
    /\ isLoading' = FALSE
    /\ UNCHANGED <<fileText, dashRecords, error, isRefreshing, refreshingRepo,
                   refreshPc, refreshes, stream, readPos, buffer, csvContent,
                   serverError, lastRead, ingestVars, codecVars, aggVars, maVars,
                   outVars, statVars>>

\* useEffect: the fetch answers with the text of the file; loadData(text).
LoadText ==
    /\ loadPc = "fetching"
    /\ \E text \in InitialFiles :
          LET st == loadData([allRecords |-> dashRecords, error |-> error,
                              isLoading |-> isLoading], text)
          IN  /\ fileText' = <<text>>
              /\ dashRecords' = st.allRecords
              /\ error' = st.error
              /\ isLoading' = st.isLoading
    /\ loadPc' = "settled"
    /\ UNCHANGED <<isRefreshing, refreshingRepo, refreshPc, refreshes, stream,
                   readPos, buffer, csvContent, serverError, lastRead, ingestVars,
                   codecVars, aggVars, maVars, outVars, statVars>>

\* handleRefresh up to its first await: the request is sent.
StartRefresh ==
    /\ refreshPc = "idle"
    /\ refreshes < MaxRefreshes
    /\ refreshes' = refreshes + 1
    /\ isRefreshing' = TRUE
    /\ refreshingRepo' = ""
    /\ error' = ""
    /\ refreshPc' = "requesting"
    /\ lastRead' = ""
    /\ UNCHANGED <<loadPc, fileText, dashRecords, isLoading, stream, readPos,
                   buffer, csvContent, serverError, ingestVars, codecVars, aggVars,
                   maVars, outVars, statVars>>

\* Variant: the catch without the finally.
RefreshFailsWithoutFinally(message) ==
    /\ error' = "Refresh failed: " \o message
    /\ refreshPc' = "idle"
    /\ UNCHANGED <<loadPc, fileText, dashRecords, isLoading, isRefreshing,
                   refreshingRepo, refreshes, stream, readPos, buffer, csvContent,
                   serverError, ingestVars, codecVars, aggVars, maVars, outVars,
                   statVars>>

\* catch and finally of handleRefresh, with the message of the error caught.
RefreshFails(message) ==
    /\ error' = "Refresh failed: " \o message
    /\ isRefreshing' = FALSE
    /\ refreshingRepo' = ""
    /\ refreshPc' = "idle"
    /\ UNCHANGED <<loadPc, fileText, dashRecords, isLoading, refreshes, stream,
                   readPos, buffer, csvContent, serverError, ingestVars, codecVars,
                   aggVars, maVars, outVars, statVars>>

\* The response is not ok: throw new Error(`Refresh failed: ${response.status}`).
RefreshNotOk ==
    /\ refreshPc = "requesting"
    /\ lastRead' = "notok"
    /\ RefreshFails("Refresh failed: 500")

\* fetch('/api/refresh') rejects.
RefreshRejected ==
    /\ refreshPc = "requesting"
    /\ lastRead' = "rejected"
    /\ RefreshFails("Failed to fetch")

\* The response is ok: the reader is taken and the locals are initialised.
RefreshOk ==
    /\ refreshPc = "requesting"
    /\ stream' \in Streams
    /\ readPos' = 0
    /\ buffer' = ""
    /\ csvContent' = ""
    /\ serverError' = ""
    /\ refreshPc' = "reading"
    /\ lastRead' = "ok"
    /\ UNCHANGED <<loadPc, fileText, dashRecords, isLoading, error, isRefreshing,
                   refreshingRepo, refreshes, ingestVars, codecVars, aggVars,
                   maVars, outVars, statVars>>

\* reader.read() delivers a chunk: the complete lines of buffer + chunk are
\* handled, the last piece stays in the buffer.
ReadChunk ==
    /\ refreshPc = "reading"
    /\ readPos < Len(stream)
    /\ \E n \in {ChunkLength, Len(stream)} :
          LET to == Min(readPos + n, Len(stream))
              lines == SplitLines(buffer \o SubSeq(stream, readPos + 1, to))
              st == HandleLines([refreshingRepo |-> refreshingRepo,
                                 csvContent |-> csvContent,
                                 serverError |-> serverError],
                                SubSeq(lines, 1, Len(lines) - 1))
          IN  /\ readPos' = to
              /\ buffer' = lines[Len(lines)]
              /\ refreshingRepo' = st.refreshingRepo
              /\ csvContent' = st.csvContent
              /\ serverError' = st.serverError
    /\ lastRead' = "chunk"
    /\ UNCHANGED <<loadPc, fileText, dashRecords, isLoading, error, isRefreshing,
                   refreshPc, refreshes, stream, ingestVars, codecVars, aggVars,
                   maVars, outVars, statVars>>

\* reader.read() reports done: the error event is thrown, or the file of the
\* complete event is loaded; finally.
ReadDone ==
    /\ refreshPc = "reading"
    /\ readPos = Len(stream)
    /\ LET st == IF serverError # ""
                 THEN [allRecords |-> dashRecords, isLoading |-> isLoading,
                       error |-> "Refresh failed: " \o serverError]
                 ELSE IF csvContent # ""
                 THEN loadData([allRecords |-> dashRecords, error |-> error,
                                isLoading |-> isLoading], csvContent)
                 ELSE [allRecords |-> dashRecords, error |-> error,
                       isLoading |-> isLoading]
       IN  /\ dashRecords' = st.allRecords
           /\ error' = st.error
           /\ isLoading' = st.isLoading
    /\ isRefreshing' = FALSE
    /\ refreshingRepo' = ""
    /\ refreshPc' = "idle"
    /\ lastRead' = "done"
    /\ UNCHANGED <<loadPc, fileText, refreshes, stream, readPos, buffer,
                   csvContent, serverError, ingestVars, codecVars, aggVars, maVars,
                   outVars, statVars>>

\* reader.read() rejects.
ReadRejected ==
    /\ refreshPc = "reading"
    /\ lastRead' = "readfail"
    /\ RefreshFails("network error")

\* The component is mounted: the state hooks hold their initial values and
\* the effect has sent the fetch of pr-velocity.csv.
DashInit ==
    /\ loadPc = "fetching" /\ fileText = <<>> /\ dashRecords = <<>>
    /\ isLoading = TRUE /\ error = "" /\ isRefreshing = FALSE /\ refreshingRepo = ""
    /\ refreshPc = "idle" /\ refreshes = 0 /\ stream = "" /\ readPos = 0
    /\ buffer = "" /\ csvContent = "" /\ serverError = "" /\ lastRead = ""

InitDashboard ==
    DashInit /\ IngestIdle /\ CodecIdle /\ AggIdle /\ AverageIdle /\ OutliersIdle
        /\ StatsIdle

NextDashboard ==
    \/ LoadMissing
    \/ LoadText
    \/ StartRefresh
    \/ RefreshNotOk
    \/ RefreshRejected
    \/ RefreshOk
    \/ ReadChunk
    \/ ReadDone
    \/ ReadRejected

SpecDashboard == InitDashboard /\ [][NextDashboard]_vars

\* Every fetch and every reader.read() settles; the user need not click.
SpecDashboardFair ==
    /\ SpecDashboard
    /\ WF_vars(LoadMissing \/ LoadText)
    /\ WF_vars(RefreshNotOk \/ RefreshRejected \/ RefreshOk)
    /\ WF_vars(ReadRejected \/ ReadChunk \/ ReadDone)

-----------------------------------------------------------------------------
(* The loading state after the initial fetch.                              *)

\* The initial fetch answered with a file that decodes to no record.
LoadedNothing == fileText # <<>> /\ parseCSV(fileText[1]) = <<>>

\* C29: once the initial fetch of pr-velocity.csv has settled, in any way
\* (file missing, file with records, file with only a header or no decodable
\* row), isLoading eventually becomes false.
C29_LoadingEnds == (loadPc = "settled") ~> (isLoading = FALSE)

\* When the file is missing or holds a record, the loading state is left at
\* the very step that settles the fetch.
LoadingEndsUnlessNothingLoaded ==
    (loadPc = "settled" /\ ~LoadedNothing) => isLoading = FALSE

\* After a file without records the error is shown and the loading state
\* stays as long as no refresh has ended.
LoadingStaysAfterNothingLoaded ==
    (loadPc = "settled" /\ LoadedNothing /\ refreshes = 0)
        => (isLoading = TRUE /\ error = NoDataError)

-----------------------------------------------------------------------------
(* Malformed rows and malformed events.                                    *)

\* The complete lines among the characters delivered so far.
DeliveredLines ==
    LET pieces == SplitLines(SubSeq(stream, 1, readPos))
    IN  SubSeq(pieces, 1, Len(pieces) - 1)

\* The events among them: the payloads of the data lines that are valid JSON.
DeliveredEvents ==
    LET data == SelectSeq(DeliveredLines, LAMBDA l : StartsWith(l, "data: "))
        parsed == [k \in DOMAIN data |-> JSONParse(SubSeq(data[k], 7, Len(data[k])))]
    IN  SelectSeq(parsed, LAMBDA e : e.type # "SyntaxError")

\* A data line whose payload is not valid JSON has been delivered.
MalformedDelivered ==
    \E k \in DOMAIN DeliveredLines :
        /\ StartsWith(DeliveredLines[k], "data: ")
        /\ JSONParse(SubSeq(DeliveredLines[k], 7, Len(DeliveredLines[k]))).type
              = "SyntaxError"

\* The given field of the last delivered event of the given type, "" if none.
LastEvent(type, field) ==
    LET of == SelectSeq(DeliveredEvents, LAMBDA e : e.type = type)
    IN  IF of = <<>> THEN "" ELSE of[Len(of)][field]

\* While the stream is read, the reader has handled every valid event
\* delivered in a complete line, whatever malformed lines came before it.
EveryValidEventHandled ==
    refreshPc = "reading" =>
        /\ refreshingRepo = LastEvent("progress", "repo")
        /\ csvContent = LastEvent("complete", "csv")
        /\ serverError = LastEvent("error", "message")

\* The row lists of the files that are loaded.
LoadedRowLists ==
    { <<>>, <<RowOf("Dee")>>, <<RowOf("Cy")>>,
      <<RowOf("Dee"), RowOf("Bob"), RowOf("Cy")>>, <<RowOf("Dee"), RowOf("Eve")>> }

\* This step calls loadData(text): the initial fetch answers with text, or
\* the stream ends after a complete event with this csv and no error event.
LoadDataCalled(text) ==
    \/ loadPc = "fetching" /\ fileText' = <<text>>
    \/ /\ refreshPc = "reading" /\ lastRead' = "done"
       /\ serverError = "" /\ csvContent = text /\ text # ""

\* A step that loads a file keeps one record for each row of five columns
\* or more, in order; when there is none, it sets the error and keeps the
\* record set.
ShortRowsSkipped ==
    /\ \A rows \in LoadedRowLists :
          LoadDataCalled(FileOf(rows)) =>
              LET kept == SelectSeq(rows, LAMBDA r : Len(r) >= 5)
              IN  IF kept = <<>>
                  THEN error' = NoDataError /\ dashRecords' = dashRecords
                  ELSE /\ Len(dashRecords') = Len(kept)
                       /\ \A n \in DOMAIN kept :
                             /\ dashRecords'[n].author = kept[n][1]
                             /\ dashRecords'[n].closedDate = kept[n][5]
    /\ LoadDataCalled("") => (error' = NoDataError /\ dashRecords' = dashRecords)

\* C26: a malformed unit is skipped and the units after it are still
\* processed: parseCSV emits no record for a row with fewer than five columns
\* and still decodes every other row; the stream reader ignores a data line
\* whose payload is not valid JSON and still handles the later progress,
\* complete and error events; a decode that yields no record surfaces as the
\* 'No data found' error and leaves the loaded record set unchanged.
C26_MalformedUnitsSkipped == []EveryValidEventHandled /\ [][ShortRowsSkipped]_vars

\* The stream began with a malformed payload and its file was loaded: Eve's
\* row is the one record, Dee's short row gave none; then the initial fetch
\* answered with the header alone: the error is set and Eve's record stays.
C26_Witness ==
    /\ lastRead = "done"
    /\ MalformedDelivered
    /\ csvContent = RefreshedFile
    /\ fileText = <<csvHeader>>
    /\ error = NoDataError
    /\ Len(dashRecords) = 1
    /\ dashRecords[1].author = "Eve"

-----------------------------------------------------------------------------
(* The end of a refresh.                                                   *)

\* This step ends the refresh in progress.
RefreshEnds == refreshPc \in {"requesting", "reading"} /\ refreshPc' = "idle"

\* An event of the given type has been delivered by the stream being read.
Delivered(type) ==
    refreshPc = "reading" /\ \E k \in DOMAIN DeliveredEvents : DeliveredEvents[k].type = type

\* The refresh ends with a failed request, a failed read or an error event.
RefreshEndsInError ==
    /\ RefreshEnds
    /\ lastRead' \in {"notok", "rejected", "readfail"} \/ Delivered("error")

\* The stream ends, after a complete event and no error event.
RefreshEndsComplete ==
    /\ RefreshEnds
    /\ lastRead' = "done"
    /\ readPos = Len(stream)
    /\ Delivered("complete")
    /\ ~Delivered("error")

\* The flags of a refresh are set exactly while one is in progress.
RefreshFlagsFollowRefresh ==
    /\ refreshPc = "idle" => (isRefreshing = FALSE /\ refreshingRepo = "")
    /\ refreshPc \in {"requesting", "reading"} => isRefreshing = TRUE

\* What a step of the dashboard does to the flags, the record set and the
\* error; the record set is otherwise replaced by the initial load only.
RefreshStep ==
    /\ RefreshEnds => (isRefreshing' = FALSE /\ refreshingRepo' = "")
    /\ RefreshEndsInError =>
          /\ dashRecords' = dashRecords
          /\ StartsWith(error', "Refresh failed: ")
    /\ dashRecords' # dashRecords =>
          \/ loadPc = "fetching" /\ loadPc' = "settled"
          \/ RefreshEndsComplete

\* C28: every refresh ends with isRefreshing = false and refreshingRepo =
\* null, whatever the outcome (complete event, error event, non-success
\* response, read failure); when the outcome is an error event or a failed
\* request the loaded record set is unchanged and the error message is set;
\* the record set is replaced only after the stream has ended with a
\* complete event and no error event.
C28_RefreshEnds == []RefreshFlagsFollowRefresh /\ [][RefreshStep]_vars

\* Cy's record was loaded and the refresh ended after a complete event and
\* an error event: the flags are reset, the message of the error event is
\* shown and Cy's record is still the record set.
C28_Witness ==
    /\ refreshPc = "idle"
    /\ lastRead = "done"
    /\ csvContent = RefreshedFile
    /\ serverError = "Failed to fetch repos"
    /\ error = "Refresh failed: Failed to fetch repos"
    /\ isRefreshing = FALSE
    /\ refreshingRepo = ""
    /\ Len(dashRecords) = 1
    /\ dashRecords[1].author = "Cy"

=============================================================================
